---------------------------- MODULE Spec2Model ----------------------------
(***************************************************************************)
(* The content-classification pipeline of SafeNet: the analyze-content     *)
(* edge function (supabase/functions/analyze-content/index.ts, the first   *)
(* serve handler, lines 22-435) with its helpers extractDetailedAnalysis,  *)
(* determineCategoryFromAnalysis, calculateConfidence, createMockAnalysis. *)
(*                                                                         *)
(* Strings are sequences of UTF-16 code units, so that startsWith,         *)
(* includes, toLowerCase, split, trim and the regular expressions are      *)
(* computed as the code computes them.  A confidence is kept in            *)
(* hundredths (0.85 is 85): every value the code can produce is a sum of   *)
(* two-decimal literals, and its IEEE-754 double differs from the          *)
(* two-decimal value by less than 2^-50, which never crosses one of the    *)
(* two-decimal limits the properties below compare it with.                *)
(* 32-bit integers are pairs of 16-bit halves [hi, lo] (TLC's own integers *)
(* are 32 bits wide and could not hold the intermediate results).          *)
(***************************************************************************)
EXTENDS Integers, Sequences, FiniteSets, TLC

(***************************************************************************)
(* String literals of index.ts                                             *)
(***************************************************************************)
\* index.ts:90  "image"
Str_image ==
    <<105, 109, 97, 103, 101>>

\* index.ts:92  "video"
Str_video ==
    <<118, 105, 100, 101, 111>>

\* index.ts:107  "http"
Str_http ==
    <<104, 116, 116, 112>>

\* index.ts:142  "data:image"
Str_dataImage ==
    <<100, 97, 116, 97, 58, 105, 109, 97, 103, 101>>

\* index.ts:146  ","
Str_comma ==
    <<44>>

\* index.ts:157  ";"
Str_semicolon ==
    <<59>>

\* index.ts:157  ":"
Str_colon ==
    <<58>>

\* index.ts:125  "image/jpeg"
Str_imageJpeg ==
    <<105, 109, 97, 103, 101, 47, 106, 112, 101, 103>>

\* index.ts:239  "unsafe"
Str_unsafe ==
    <<117, 110, 115, 97, 102, 101>>

\* index.ts:240  "violate"
Str_violate ==
    <<118, 105, 111, 108, 97, 116, 101>>

\* index.ts:241  "inappropriate"
Str_inappropriate ==
    <<105, 110, 97, 112, 112, 114, 111, 112, 114, 105, 97, 116, 101>>

\* index.ts:244  "No specific issues found"
Str_NoSpecificIssues ==
    <<78, 111, 32, 115, 112, 101, 99, 105, 102, 105, 99, 32, 105, 115, 115, 117, 101, 115, 32, 102,
    111, 117, 110, 100>>

\* index.ts:247  "because "
Str_because ==
    <<98, 101, 99, 97, 117, 115, 101, 32>>

\* index.ts:250  "issue"
Str_issue ==
    <<105, 115, 115, 117, 101>>

\* index.ts:255  "Potential policy violation detected"
Str_PotentialViolation ==
    <<80, 111, 116, 101, 110, 116, 105, 97, 108, 32, 112, 111, 108, 105, 99, 121, 32, 118, 105, 111,
    108, 97, 116, 105, 111, 110, 32, 100, 101, 116, 101, 99, 116, 101, 100>>

\* index.ts:269  "Content appears to be safe"
Str_ContentAppearsSafe ==
    <<67, 111, 110, 116, 101, 110, 116, 32, 97, 112, 112, 101, 97, 114, 115, 32, 116, 111, 32, 98,
    101, 32, 115, 97, 102, 101>>

\* index.ts:340  "safe"
Str_safe ==
    <<115, 97, 102, 101>>

\* index.ts:345  "violence"
Str_violence ==
    <<118, 105, 111, 108, 101, 110, 99, 101>>

\* index.ts:345  "graphic"
Str_graphic ==
    <<103, 114, 97, 112, 104, 105, 99>>

\* index.ts:345  "harmful"
Str_harmful ==
    <<104, 97, 114, 109, 102, 117, 108>>

\* index.ts:347  "sexual"
Str_sexual ==
    <<115, 101, 120, 117, 97, 108>>

\* index.ts:347  "explicit"
Str_explicit ==
    <<101, 120, 112, 108, 105, 99, 105, 116>>

\* index.ts:347  "adult"
Str_adult ==
    <<97, 100, 117, 108, 116>>

\* index.ts:349  "hate"
Str_hate ==
    <<104, 97, 116, 101>>

\* index.ts:349  "discriminat"
Str_discriminat ==
    <<100, 105, 115, 99, 114, 105, 109, 105, 110, 97, 116>>

\* index.ts:349  "offensive"
Str_offensive ==
    <<111, 102, 102, 101, 110, 115, 105, 118, 101>>

\* index.ts:346  "_policy_violation"
Str_policyViolationSuffix ==
    <<95, 112, 111, 108, 105, 99, 121, 95, 118, 105, 111, 108, 97, 116, 105, 111, 110>>

\* index.ts:348  "_adult_content"
Str_adultContentSuffix ==
    <<95, 97, 100, 117, 108, 116, 95, 99, 111, 110, 116, 101, 110, 116>>

\* index.ts:350  "_hate_speech"
Str_hateSpeechSuffix ==
    <<95, 104, 97, 116, 101, 95, 115, 112, 101, 101, 99, 104>>

\* index.ts:365  "definitely"
Str_definitely ==
    <<100, 101, 102, 105, 110, 105, 116, 101, 108, 121>>

\* index.ts:365  "certainly"
Str_certainly ==
    <<99, 101, 114, 116, 97, 105, 110, 108, 121>>

\* index.ts:365  "clearly"
Str_clearly ==
    <<99, 108, 101, 97, 114, 108, 121>>

\* index.ts:367  "likely"
Str_likely ==
    <<108, 105, 107, 101, 108, 121>>

\* index.ts:367  "probably"
Str_probably ==
    <<112, 114, 111, 98, 97, 98, 108, 121>>

\* index.ts:369  "possibly"
Str_possibly ==
    <<112, 111, 115, 115, 105, 98, 108, 121>>

\* index.ts:369  "might"
Str_might ==
    <<109, 105, 103, 104, 116>>

\* index.ts:369  "could be"
Str_couldBe ==
    <<99, 111, 117, 108, 100, 32, 98, 101>>

\* index.ts:371  "uncertain"
Str_uncertain ==
    <<117, 110, 99, 101, 114, 116, 97, 105, 110>>

\* index.ts:371  "unclear"
Str_unclear ==
    <<117, 110, 99, 108, 101, 97, 114>>

\* index.ts:403  "Image may contain inappropriate visual elements"
Str_MockImageReason ==
    <<73, 109, 97, 103, 101, 32, 109, 97, 121, 32, 99, 111, 110, 116, 97, 105, 110, 32, 105, 110,
    97, 112, 112, 114, 111, 112, 114, 105, 97, 116, 101, 32, 118, 105, 115, 117, 97, 108, 32, 101,
    108, 101, 109, 101, 110, 116, 115>>

\* index.ts:404  "visual_policy_violation"
Str_visualPolicyViolation ==
    <<118, 105, 115, 117, 97, 108, 95, 112, 111, 108, 105, 99, 121, 95, 118, 105, 111, 108, 97, 116,
    105, 111, 110>>

\* index.ts:410  "Video may contain concerning scenes or content"
Str_MockVideoReason ==
    <<86, 105, 100, 101, 111, 32, 109, 97, 121, 32, 99, 111, 110, 116, 97, 105, 110, 32, 99, 111,
    110, 99, 101, 114, 110, 105, 110, 103, 32, 115, 99, 101, 110, 101, 115, 32, 111, 114, 32, 99,
    111, 110, 116, 101, 110, 116>>

\* index.ts:411  "video_policy_violation"
Str_videoPolicyViolation ==
    <<118, 105, 100, 101, 111, 95, 112, 111, 108, 105, 99, 121, 95, 118, 105, 111, 108, 97, 116,
    105, 111, 110>>

\* index.ts:417  "Text may contain potentially harmful language"
Str_MockTextReason ==
    <<84, 101, 120, 116, 32, 109, 97, 121, 32, 99, 111, 110, 116, 97, 105, 110, 32, 112, 111, 116,
    101, 110, 116, 105, 97, 108, 108, 121, 32, 104, 97, 114, 109, 102, 117, 108, 32, 108, 97, 110,
    103, 117, 97, 103, 101>>

\* index.ts:418  "text_policy_violation"
Str_textPolicyViolation ==
    <<116, 101, 120, 116, 95, 112, 111, 108, 105, 99, 121, 95, 118, 105, 111, 108, 97, 116, 105,
    111, 110>>

\* index.ts:432  "Mock analysis: "
Str_MockPrefix ==
    <<77, 111, 99, 107, 32, 97, 110, 97, 108, 121, 115, 105, 115, 58, 32>>

\* index.ts:432  ". This is a fallback response as the AI service is currently unavailable."
Str_MockSuffix ==
    <<46, 32, 84, 104, 105, 115, 32, 105, 115, 32, 97, 32, 102, 97, 108, 108, 98, 97, 99, 107, 32,
    114, 101, 115, 112, 111, 110, 115, 101, 32, 97, 115, 32, 116, 104, 101, 32, 65, 73, 32, 115,
    101, 114, 118, 105, 99, 101, 32, 105, 115, 32, 99, 117, 114, 114, 101, 110, 116, 108, 121, 32,
    117, 110, 97, 118, 97, 105, 108, 97, 98, 108, 101, 46>>

\* index.ts:397  "**Overall Assessment**: The content appears to be safe and does not violate any content policies.\n\n**Specific Issues**: No issues were identified in this content.\n\n**Reasoning**: After reviewing the "
Str_MockSafeDetailHead ==
    <<42, 42, 79, 118, 101, 114, 97, 108, 108, 32, 65, 115, 115, 101, 115, 115, 109, 101, 110, 116,
    42, 42, 58, 32, 84, 104, 101, 32, 99, 111, 110, 116, 101, 110, 116, 32, 97, 112, 112, 101, 97,
    114, 115, 32, 116, 111, 32, 98, 101, 32, 115, 97, 102, 101, 32, 97, 110, 100, 32, 100, 111, 101,
    115, 32, 110, 111, 116, 32, 118, 105, 111, 108, 97, 116, 101, 32, 97, 110, 121, 32, 99, 111,
    110, 116, 101, 110, 116, 32, 112, 111, 108, 105, 99, 105, 101, 115, 46, 10, 10, 42, 42, 83, 112,
    101, 99, 105, 102, 105, 99, 32, 73, 115, 115, 117, 101, 115, 42, 42, 58, 32, 78, 111, 32, 105,
    115, 115, 117, 101, 115, 32, 119, 101, 114, 101, 32, 105, 100, 101, 110, 116, 105, 102, 105,
    101, 100, 32, 105, 110, 32, 116, 104, 105, 115, 32, 99, 111, 110, 116, 101, 110, 116, 46, 10,
    10, 42, 42, 82, 101, 97, 115, 111, 110, 105, 110, 103, 42, 42, 58, 32, 65, 102, 116, 101, 114,
    32, 114, 101, 118, 105, 101, 119, 105, 110, 103, 32, 116, 104, 101, 32>>

\* index.ts:399  ", I found no elements that would violate platform policies. The content is appropriate for general audiences.\n\n**Recommendations**: This content can be safely published without any modifications."
Str_MockSafeDetailTail ==
    <<44, 32, 73, 32, 102, 111, 117, 110, 100, 32, 110, 111, 32, 101, 108, 101, 109, 101, 110, 116,
    115, 32, 116, 104, 97, 116, 32, 119, 111, 117, 108, 100, 32, 118, 105, 111, 108, 97, 116, 101,
    32, 112, 108, 97, 116, 102, 111, 114, 109, 32, 112, 111, 108, 105, 99, 105, 101, 115, 46, 32,
    84, 104, 101, 32, 99, 111, 110, 116, 101, 110, 116, 32, 105, 115, 32, 97, 112, 112, 114, 111,
    112, 114, 105, 97, 116, 101, 32, 102, 111, 114, 32, 103, 101, 110, 101, 114, 97, 108, 32, 97,
    117, 100, 105, 101, 110, 99, 101, 115, 46, 10, 10, 42, 42, 82, 101, 99, 111, 109, 109, 101, 110,
    100, 97, 116, 105, 111, 110, 115, 42, 42, 58, 32, 84, 104, 105, 115, 32, 99, 111, 110, 116, 101,
    110, 116, 32, 99, 97, 110, 32, 98, 101, 32, 115, 97, 102, 101, 108, 121, 32, 112, 117, 98, 108,
    105, 115, 104, 101, 100, 32, 119, 105, 116, 104, 111, 117, 116, 32, 97, 110, 121, 32, 109, 111,
    100, 105, 102, 105, 99, 97, 116, 105, 111, 110, 115, 46>>

\* index.ts:405  "**Overall Assessment**: This image appears to contain content that may violate platform policies.\n\n**Specific Issues**: Potentially inappropriate visual elements that may not be suitable for all audiences.\n\n**Reasoning**: The visual content contains elements that could be interpreted as violating community standards, specifically related to inappropriate imagery.\n\n**Recommendations**: Review the image manually before publication or consider using a different image."
Str_MockImageDetail ==
    <<42, 42, 79, 118, 101, 114, 97, 108, 108, 32, 65, 115, 115, 101, 115, 115, 109, 101, 110, 116,
    42, 42, 58, 32, 84, 104, 105, 115, 32, 105, 109, 97, 103, 101, 32, 97, 112, 112, 101, 97, 114,
    115, 32, 116, 111, 32, 99, 111, 110, 116, 97, 105, 110, 32, 99, 111, 110, 116, 101, 110, 116,
    32, 116, 104, 97, 116, 32, 109, 97, 121, 32, 118, 105, 111, 108, 97, 116, 101, 32, 112, 108, 97,
    116, 102, 111, 114, 109, 32, 112, 111, 108, 105, 99, 105, 101, 115, 46, 10, 10, 42, 42, 83, 112,
    101, 99, 105, 102, 105, 99, 32, 73, 115, 115, 117, 101, 115, 42, 42, 58, 32, 80, 111, 116, 101,
    110, 116, 105, 97, 108, 108, 121, 32, 105, 110, 97, 112, 112, 114, 111, 112, 114, 105, 97, 116,
    101, 32, 118, 105, 115, 117, 97, 108, 32, 101, 108, 101, 109, 101, 110, 116, 115, 32, 116, 104,
    97, 116, 32, 109, 97, 121, 32, 110, 111, 116, 32, 98, 101, 32, 115, 117, 105, 116, 97, 98, 108,
    101, 32, 102, 111, 114, 32, 97, 108, 108, 32, 97, 117, 100, 105, 101, 110, 99, 101, 115, 46, 10,
    10, 42, 42, 82, 101, 97, 115, 111, 110, 105, 110, 103, 42, 42, 58, 32, 84, 104, 101, 32, 118,
    105, 115, 117, 97, 108, 32, 99, 111, 110, 116, 101, 110, 116, 32, 99, 111, 110, 116, 97, 105,
    110, 115, 32, 101, 108, 101, 109, 101, 110, 116, 115, 32, 116, 104, 97, 116, 32, 99, 111, 117,
    108, 100, 32, 98, 101, 32, 105, 110, 116, 101, 114, 112, 114, 101, 116, 101, 100, 32, 97, 115,
    32, 118, 105, 111, 108, 97, 116, 105, 110, 103, 32, 99, 111, 109, 109, 117, 110, 105, 116, 121,
    32, 115, 116, 97, 110, 100, 97, 114, 100, 115, 44, 32, 115, 112, 101, 99, 105, 102, 105, 99, 97,
    108, 108, 121, 32, 114, 101, 108, 97, 116, 101, 100, 32, 116, 111, 32, 105, 110, 97, 112, 112,
    114, 111, 112, 114, 105, 97, 116, 101, 32, 105, 109, 97, 103, 101, 114, 121, 46, 10, 10, 42, 42,
    82, 101, 99, 111, 109, 109, 101, 110, 100, 97, 116, 105, 111, 110, 115, 42, 42, 58, 32, 82, 101,
    118, 105, 101, 119, 32, 116, 104, 101, 32, 105, 109, 97, 103, 101, 32, 109, 97, 110, 117, 97,
    108, 108, 121, 32, 98, 101, 102, 111, 114, 101, 32, 112, 117, 98, 108, 105, 99, 97, 116, 105,
    111, 110, 32, 111, 114, 32, 99, 111, 110, 115, 105, 100, 101, 114, 32, 117, 115, 105, 110, 103,
    32, 97, 32, 100, 105, 102, 102, 101, 114, 101, 110, 116, 32, 105, 109, 97, 103, 101, 46>>

\* index.ts:412  "**Overall Assessment**: This video may contain content that violates platform policies.\n\n**Specific Issues**: Potentially concerning scenes or sequences that may not be appropriate for general viewing.\n\n**Reasoning**: Certain segments of this video contain elements that could be interpreted as violating community guidelines.\n\n**Recommendations**: Review the video manually, particularly at key segments, or consider editing before publication."
Str_MockVideoDetail ==
    <<42, 42, 79, 118, 101, 114, 97, 108, 108, 32, 65, 115, 115, 101, 115, 115, 109, 101, 110, 116,
    42, 42, 58, 32, 84, 104, 105, 115, 32, 118, 105, 100, 101, 111, 32, 109, 97, 121, 32, 99, 111,
    110, 116, 97, 105, 110, 32, 99, 111, 110, 116, 101, 110, 116, 32, 116, 104, 97, 116, 32, 118,
    105, 111, 108, 97, 116, 101, 115, 32, 112, 108, 97, 116, 102, 111, 114, 109, 32, 112, 111, 108,
    105, 99, 105, 101, 115, 46, 10, 10, 42, 42, 83, 112, 101, 99, 105, 102, 105, 99, 32, 73, 115,
    115, 117, 101, 115, 42, 42, 58, 32, 80, 111, 116, 101, 110, 116, 105, 97, 108, 108, 121, 32, 99,
    111, 110, 99, 101, 114, 110, 105, 110, 103, 32, 115, 99, 101, 110, 101, 115, 32, 111, 114, 32,
    115, 101, 113, 117, 101, 110, 99, 101, 115, 32, 116, 104, 97, 116, 32, 109, 97, 121, 32, 110,
    111, 116, 32, 98, 101, 32, 97, 112, 112, 114, 111, 112, 114, 105, 97, 116, 101, 32, 102, 111,
    114, 32, 103, 101, 110, 101, 114, 97, 108, 32, 118, 105, 101, 119, 105, 110, 103, 46, 10, 10,
    42, 42, 82, 101, 97, 115, 111, 110, 105, 110, 103, 42, 42, 58, 32, 67, 101, 114, 116, 97, 105,
    110, 32, 115, 101, 103, 109, 101, 110, 116, 115, 32, 111, 102, 32, 116, 104, 105, 115, 32, 118,
    105, 100, 101, 111, 32, 99, 111, 110, 116, 97, 105, 110, 32, 101, 108, 101, 109, 101, 110, 116,
    115, 32, 116, 104, 97, 116, 32, 99, 111, 117, 108, 100, 32, 98, 101, 32, 105, 110, 116, 101,
    114, 112, 114, 101, 116, 101, 100, 32, 97, 115, 32, 118, 105, 111, 108, 97, 116, 105, 110, 103,
    32, 99, 111, 109, 109, 117, 110, 105, 116, 121, 32, 103, 117, 105, 100, 101, 108, 105, 110, 101,
    115, 46, 10, 10, 42, 42, 82, 101, 99, 111, 109, 109, 101, 110, 100, 97, 116, 105, 111, 110, 115,
    42, 42, 58, 32, 82, 101, 118, 105, 101, 119, 32, 116, 104, 101, 32, 118, 105, 100, 101, 111, 32,
    109, 97, 110, 117, 97, 108, 108, 121, 44, 32, 112, 97, 114, 116, 105, 99, 117, 108, 97, 114,
    108, 121, 32, 97, 116, 32, 107, 101, 121, 32, 115, 101, 103, 109, 101, 110, 116, 115, 44, 32,
    111, 114, 32, 99, 111, 110, 115, 105, 100, 101, 114, 32, 101, 100, 105, 116, 105, 110, 103, 32,
    98, 101, 102, 111, 114, 101, 32, 112, 117, 98, 108, 105, 99, 97, 116, 105, 111, 110, 46>>

\* index.ts:419  "**Overall Assessment**: This text contains potentially harmful language that may violate platform policies.\n\n**Specific Issues**: Language that could be interpreted as inappropriate or harmful to certain audiences.\n\n**Reasoning**: The text includes phrases or terms that could violate community guidelines around respectful communication.\n\n**Recommendations**: Consider revising the language used in this content before publication."
Str_MockTextDetail ==
    <<42, 42, 79, 118, 101, 114, 97, 108, 108, 32, 65, 115, 115, 101, 115, 115, 109, 101, 110, 116,
    42, 42, 58, 32, 84, 104, 105, 115, 32, 116, 101, 120, 116, 32, 99, 111, 110, 116, 97, 105, 110,
    115, 32, 112, 111, 116, 101, 110, 116, 105, 97, 108, 108, 121, 32, 104, 97, 114, 109, 102, 117,
    108, 32, 108, 97, 110, 103, 117, 97, 103, 101, 32, 116, 104, 97, 116, 32, 109, 97, 121, 32, 118,
    105, 111, 108, 97, 116, 101, 32, 112, 108, 97, 116, 102, 111, 114, 109, 32, 112, 111, 108, 105,
    99, 105, 101, 115, 46, 10, 10, 42, 42, 83, 112, 101, 99, 105, 102, 105, 99, 32, 73, 115, 115,
    117, 101, 115, 42, 42, 58, 32, 76, 97, 110, 103, 117, 97, 103, 101, 32, 116, 104, 97, 116, 32,
    99, 111, 117, 108, 100, 32, 98, 101, 32, 105, 110, 116, 101, 114, 112, 114, 101, 116, 101, 100,
    32, 97, 115, 32, 105, 110, 97, 112, 112, 114, 111, 112, 114, 105, 97, 116, 101, 32, 111, 114,
    32, 104, 97, 114, 109, 102, 117, 108, 32, 116, 111, 32, 99, 101, 114, 116, 97, 105, 110, 32, 97,
    117, 100, 105, 101, 110, 99, 101, 115, 46, 10, 10, 42, 42, 82, 101, 97, 115, 111, 110, 105, 110,
    103, 42, 42, 58, 32, 84, 104, 101, 32, 116, 101, 120, 116, 32, 105, 110, 99, 108, 117, 100, 101,
    115, 32, 112, 104, 114, 97, 115, 101, 115, 32, 111, 114, 32, 116, 101, 114, 109, 115, 32, 116,
    104, 97, 116, 32, 99, 111, 117, 108, 100, 32, 118, 105, 111, 108, 97, 116, 101, 32, 99, 111,
    109, 109, 117, 110, 105, 116, 121, 32, 103, 117, 105, 100, 101, 108, 105, 110, 101, 115, 32, 97,
    114, 111, 117, 110, 100, 32, 114, 101, 115, 112, 101, 99, 116, 102, 117, 108, 32, 99, 111, 109,
    109, 117, 110, 105, 99, 97, 116, 105, 111, 110, 46, 10, 10, 42, 42, 82, 101, 99, 111, 109, 109,
    101, 110, 100, 97, 116, 105, 111, 110, 115, 42, 42, 58, 32, 67, 111, 110, 115, 105, 100, 101,
    114, 32, 114, 101, 118, 105, 115, 105, 110, 103, 32, 116, 104, 101, 32, 108, 97, 110, 103, 117,
    97, 103, 101, 32, 117, 115, 101, 100, 32, 105, 110, 32, 116, 104, 105, 115, 32, 99, 111, 110,
    116, 101, 110, 116, 32, 98, 101, 102, 111, 114, 101, 32, 112, 117, 98, 108, 105, 99, 97, 116,
    105, 111, 110, 46>>

\* index.ts:84  "Analyze this content for potential policy violations or inappropriate material and provide a detailed analysis with the following structure: \n\n1. Overall Assessment: Is this content safe or potentially violating policies?\n2. Specific Issues: List any specific issues found or confirm no issues were identified.\n3. Reasoning: Explain your reasoning in detail, including context and nuance.\n4. Recommendations: Provide specific recommendations for this content.\n\n"
Str_PromptHead ==
    <<65, 110, 97, 108, 121, 122, 101, 32, 116, 104, 105, 115, 32, 99, 111, 110, 116, 101, 110, 116,
    32, 102, 111, 114, 32, 112, 111, 116, 101, 110, 116, 105, 97, 108, 32, 112, 111, 108, 105, 99,
    121, 32, 118, 105, 111, 108, 97, 116, 105, 111, 110, 115, 32, 111, 114, 32, 105, 110, 97, 112,
    112, 114, 111, 112, 114, 105, 97, 116, 101, 32, 109, 97, 116, 101, 114, 105, 97, 108, 32, 97,
    110, 100, 32, 112, 114, 111, 118, 105, 100, 101, 32, 97, 32, 100, 101, 116, 97, 105, 108, 101,
    100, 32, 97, 110, 97, 108, 121, 115, 105, 115, 32, 119, 105, 116, 104, 32, 116, 104, 101, 32,
    102, 111, 108, 108, 111, 119, 105, 110, 103, 32, 115, 116, 114, 117, 99, 116, 117, 114, 101, 58,
    32, 10, 10, 49, 46, 32, 79, 118, 101, 114, 97, 108, 108, 32, 65, 115, 115, 101, 115, 115, 109,
    101, 110, 116, 58, 32, 73, 115, 32, 116, 104, 105, 115, 32, 99, 111, 110, 116, 101, 110, 116,
    32, 115, 97, 102, 101, 32, 111, 114, 32, 112, 111, 116, 101, 110, 116, 105, 97, 108, 108, 121,
    32, 118, 105, 111, 108, 97, 116, 105, 110, 103, 32, 112, 111, 108, 105, 99, 105, 101, 115, 63,
    10, 50, 46, 32, 83, 112, 101, 99, 105, 102, 105, 99, 32, 73, 115, 115, 117, 101, 115, 58, 32,
    76, 105, 115, 116, 32, 97, 110, 121, 32, 115, 112, 101, 99, 105, 102, 105, 99, 32, 105, 115,
    115, 117, 101, 115, 32, 102, 111, 117, 110, 100, 32, 111, 114, 32, 99, 111, 110, 102, 105, 114,
    109, 32, 110, 111, 32, 105, 115, 115, 117, 101, 115, 32, 119, 101, 114, 101, 32, 105, 100, 101,
    110, 116, 105, 102, 105, 101, 100, 46, 10, 51, 46, 32, 82, 101, 97, 115, 111, 110, 105, 110,
    103, 58, 32, 69, 120, 112, 108, 97, 105, 110, 32, 121, 111, 117, 114, 32, 114, 101, 97, 115,
    111, 110, 105, 110, 103, 32, 105, 110, 32, 100, 101, 116, 97, 105, 108, 44, 32, 105, 110, 99,
    108, 117, 100, 105, 110, 103, 32, 99, 111, 110, 116, 101, 120, 116, 32, 97, 110, 100, 32, 110,
    117, 97, 110, 99, 101, 46, 10, 52, 46, 32, 82, 101, 99, 111, 109, 109, 101, 110, 100, 97, 116,
    105, 111, 110, 115, 58, 32, 80, 114, 111, 118, 105, 100, 101, 32, 115, 112, 101, 99, 105, 102,
    105, 99, 32, 114, 101, 99, 111, 109, 109, 101, 110, 100, 97, 116, 105, 111, 110, 115, 32, 102,
    111, 114, 32, 116, 104, 105, 115, 32, 99, 111, 110, 116, 101, 110, 116, 46, 10, 10>>

\* index.ts:91  "This is an image. Focus on visual elements that might be concerning."
Str_PromptImage ==
    <<84, 104, 105, 115, 32, 105, 115, 32, 97, 110, 32, 105, 109, 97, 103, 101, 46, 32, 70, 111, 99,
    117, 115, 32, 111, 110, 32, 118, 105, 115, 117, 97, 108, 32, 101, 108, 101, 109, 101, 110, 116,
    115, 32, 116, 104, 97, 116, 32, 109, 105, 103, 104, 116, 32, 98, 101, 32, 99, 111, 110, 99, 101,
    114, 110, 105, 110, 103, 46>>

\* index.ts:93  "This is a video. Consider potential inappropriate scenes or content."
Str_PromptVideo ==
    <<84, 104, 105, 115, 32, 105, 115, 32, 97, 32, 118, 105, 100, 101, 111, 46, 32, 67, 111, 110,
    115, 105, 100, 101, 114, 32, 112, 111, 116, 101, 110, 116, 105, 97, 108, 32, 105, 110, 97, 112,
    112, 114, 111, 112, 114, 105, 97, 116, 101, 32, 115, 99, 101, 110, 101, 115, 32, 111, 114, 32,
    99, 111, 110, 116, 101, 110, 116, 46>>

\* index.ts:95  "This is text. Look for harmful language, threats, or inappropriate content."
Str_PromptText ==
    <<84, 104, 105, 115, 32, 105, 115, 32, 116, 101, 120, 116, 46, 32, 76, 111, 111, 107, 32, 102,
    111, 114, 32, 104, 97, 114, 109, 102, 117, 108, 32, 108, 97, 110, 103, 117, 97, 103, 101, 44,
    32, 116, 104, 114, 101, 97, 116, 115, 44, 32, 111, 114, 32, 105, 110, 97, 112, 112, 114, 111,
    112, 114, 105, 97, 116, 101, 32, 99, 111, 110, 116, 101, 110, 116, 46>>

\* index.ts:180  " Content description: "
Str_ContentDescription ==
    <<32, 67, 111, 110, 116, 101, 110, 116, 32, 100, 101, 115, 99, 114, 105, 112, 116, 105, 111,
    110, 58, 32>>

\* index.ts:196  " Content: "
Str_ContentLabel ==
    <<32, 67, 111, 110, 116, 101, 110, 116, 58, 32>>

\* index.ts:45  "Invalid request body"
Str_InvalidRequestBody ==
    <<73, 110, 118, 97, 108, 105, 100, 32, 114, 101, 113, 117, 101, 115, 116, 32, 98, 111, 100,
    121>>

\* index.ts:48  "Invalid request format"
Str_InvalidRequestFormat ==
    <<73, 110, 118, 97, 108, 105, 100, 32, 114, 101, 113, 117, 101, 115, 116, 32, 102, 111, 114,
    109, 97, 116>>

\* index.ts:59  "Content is required"
Str_ContentIsRequired ==
    <<67, 111, 110, 116, 101, 110, 116, 32, 105, 115, 32, 114, 101, 113, 117, 105, 114, 101, 100>>

\* index.ts:61  "Missing content"
Str_MissingContent ==
    <<77, 105, 115, 115, 105, 110, 103, 32, 99, 111, 110, 116, 101, 110, 116>>

\* index.ts:290  "Internal server error"
Str_InternalServerError ==
    <<73, 110, 116, 101, 114, 110, 97, 108, 32, 115, 101, 114, 118, 101, 114, 32, 101, 114, 114,
    111, 114>>

\* index.ts:293  "Server error"
Str_ServerError ==
    <<83, 101, 114, 118, 101, 114, 32, 101, 114, 114, 111, 114>>

\* index.ts:304  "Overall Assessment"
Str_OverallAssessment ==
    <<79, 118, 101, 114, 97, 108, 108, 32, 65, 115, 115, 101, 115, 115, 109, 101, 110, 116>>

\* index.ts:305  "Specific Issues"
Str_SpecificIssues ==
    <<83, 112, 101, 99, 105, 102, 105, 99, 32, 73, 115, 115, 117, 101, 115>>

\* index.ts:306  "Reasoning"
Str_Reasoning ==
    <<82, 101, 97, 115, 111, 110, 105, 110, 103>>

\* index.ts:307  "Recommendations"
Str_Recommendations ==
    <<82, 101, 99, 111, 109, 109, 101, 110, 100, 97, 116, 105, 111, 110, 115>>

\* index.ts:318  "**"
Str_Bold ==
    <<42, 42>>

\* index.ts:318  "**: "
Str_BoldColon ==
    <<42, 42, 58, 32>>

\* index.ts:318  "\n\n"
Str_NewlineNewline ==
    <<10, 10>>

\* index.ts:320  "No "
Str_No ==
    <<78, 111, 32>>

\* index.ts:320  " provided."
Str_Provided ==
    <<32, 112, 114, 111, 118, 105, 100, 101, 100, 46>>

\* index.ts:117  "ABCDEFGHIJKLMNOPQRSTUVWXYZabcdefghijklmnopqrstuvwxyz0123456789+/"
Str_Base64Alphabet ==
    <<65, 66, 67, 68, 69, 70, 71, 72, 73, 74, 75, 76, 77, 78, 79, 80, 81, 82, 83, 84, 85, 86, 87,
    88, 89, 90, 97, 98, 99, 100, 101, 102, 103, 104, 105, 106, 107, 108, 109, 110, 111, 112, 113,
    114, 115, 116, 117, 118, 119, 120, 121, 122, 48, 49, 50, 51, 52, 53, 54, 55, 56, 57, 43, 47>>

(***************************************************************************)
(* Bounds of the model                                                     *)
(***************************************************************************)
\* Longest content drawn from ContentAlphabet (the named samples are longer).
MaxContentLen == 5
\* Most vocabulary tokens concatenated into one provider answer.
MaxTokens == 2
\* Longest media body returned by the media fetch.
MaxBodyLen == 2
\* Most fragments concatenated into one answer given to the verdict extractor alone.
MaxAnswerWords == 3
\* Most section fragments concatenated into one such answer.
MaxSections == 4
\* Most invocations of the handler in flight at once.
MaxInvocations == 2
\* Most submissions of the Upload page waiting for the tables at once.
MaxPending == 1

(***************************************************************************)
(* Inputs: request contents, content types, provider answers               *)
(***************************************************************************)
\* "hello"
In_hello ==
    <<104, 101, 108, 108, 111>>

\* "text 3"
In_text3 ==
    <<116, 101, 120, 116, 32, 51>>

\* "http://x/3.jpg"
In_httpUrl ==
    <<104, 116, 116, 112, 58, 47, 47, 120, 47, 51, 46, 106, 112, 103>>

\* "https://x/f.png"
In_httpsUrl ==
    <<104, 116, 116, 112, 115, 58, 47, 47, 120, 47, 102, 46, 112, 110, 103>>

\* "data:image/png;base64,AAA3"
In_dataUrl ==
    <<100, 97, 116, 97, 58, 105, 109, 97, 103, 101, 47, 112, 110, 103, 59, 98, 97, 115, 101, 54, 52,
    44, 65, 65, 65, 51>>

\* "data:image/jpeg;base64,/9j/"
In_dataUrlJpeg ==
    <<100, 97, 116, 97, 58, 105, 109, 97, 103, 101, 47, 106, 112, 101, 103, 59, 98, 97, 115, 101,
    54, 52, 44, 47, 57, 106, 47>>

\* "data:image/png;base64,"
In_dataUrlNoPayload ==
    <<100, 97, 116, 97, 58, 105, 109, 97, 103, 101, 47, 112, 110, 103, 59, 98, 97, 115, 101, 54, 52,
    44>>

\* "data:image/png"
In_dataUrlNoComma ==
    <<100, 97, 116, 97, 58, 105, 109, 97, 103, 101, 47, 112, 110, 103>>

\* "data:application/octet-stream;base64,AAA3": a data URL whose media type does not say image
In_dataUrlOctets ==
    <<100, 97, 116, 97, 58, 97, 112, 112, 108, 105, 99, 97, 116, 105, 111, 110, 47, 111, 99, 116,
    101, 116, 45, 115, 116, 114, 101, 97, 109, 59, 98, 97, 115, 101, 54, 52, 44, 65, 65, 65, 51>>

\* "httpd logo": the description of an image, not a URL
In_httpWord ==
    <<104, 116, 116, 112, 100, 32, 108, 111, 103, 111>>

\* "polygenelubricants"
In_polygenelubricants ==
    <<112, 111, 108, 121, 103, 101, 110, 101, 108, 117, 98, 114, 105, 99, 97, 110, 116, 115>>

\* U+1F600 (a surrogate pair) followed by '!'
In_emoji ==
    <<55357, 56832, 33>>

\* a low surrogate, a high one, 'a', a high one: no pair
In_loneSurrogates ==
    <<56832, 55357, 97, 55357>>

\* "un"
Tok_un ==
    <<117, 110>>

\* "safe"
Tok_safe ==
    <<115, 97, 102, 101>>

\* "UNSAFE"
Tok_UNSAFE ==
    <<85, 78, 83, 65, 70, 69>>

\* " Violates policy"
Tok_violates ==
    <<32, 86, 105, 111, 108, 97, 116, 101, 115, 32, 112, 111, 108, 105, 99, 121>>

\* "Inappropriate"
Tok_Inappropriate ==
    <<73, 110, 97, 112, 112, 114, 111, 112, 114, 105, 97, 116, 101>>

\* " because it contains a threat."
Tok_because ==
    <<32, 98, 101, 99, 97, 117, 115, 101, 32, 105, 116, 32, 99, 111, 110, 116, 97, 105, 110, 115,
    32, 97, 32, 116, 104, 114, 101, 97, 116, 46>>

\* " Issues: spam!"
Tok_issues ==
    <<32, 73, 115, 115, 117, 101, 115, 58, 32, 115, 112, 97, 109, 33>>

\* " definitely"
Tok_definitely ==
    <<32, 100, 101, 102, 105, 110, 105, 116, 101, 108, 121>>

\* " uncertain"
Tok_uncertain ==
    <<32, 117, 110, 99, 101, 114, 116, 97, 105, 110>>

\* " adult"
Tok_adult ==
    <<32, 97, 100, 117, 108, 116>>

\* "Mock analysis: Content appears to be safe. This is a fallback response as the AI service is currently unavailable."
Tok_mockMarker ==
    <<77, 111, 99, 107, 32, 97, 110, 97, 108, 121, 115, 105, 115, 58, 32, 67, 111, 110, 116, 101,
    110, 116, 32, 97, 112, 112, 101, 97, 114, 115, 32, 116, 111, 32, 98, 101, 32, 115, 97, 102, 101,
    46, 32, 84, 104, 105, 115, 32, 105, 115, 32, 97, 32, 102, 97, 108, 108, 98, 97, 99, 107, 32,
    114, 101, 115, 112, 111, 110, 115, 101, 32, 97, 115, 32, 116, 104, 101, 32, 65, 73, 32, 115,
    101, 114, 118, 105, 99, 101, 32, 105, 115, 32, 99, 117, 114, 114, 101, 110, 116, 108, 121, 32,
    117, 110, 97, 118, 97, 105, 108, 97, 98, 108, 101, 46>>

\* Fragments of provider answers the verdict extractor is applied to.
\* "This content is unsafe"
Ans_thisContentIsUnsafe ==
    <<84, 104, 105, 115, 32, 99, 111, 110, 116, 101, 110, 116, 32, 105, 115, 32, 117, 110, 115, 97,
    102, 101>>

\* " because \n"
Ans_becauseNewline ==
    <<32, 98, 101, 99, 97, 117, 115, 101, 32, 10>>

\* " an issue"
Ans_anIssue ==
    <<32, 97, 110, 32, 105, 115, 115, 117, 101>>

\* " graphic violence"
Ans_graphicViolence ==
    <<32, 103, 114, 97, 112, 104, 105, 99, 32, 118, 105, 111, 108, 101, 110, 99, 101>>

\* " hate"
Ans_hate ==
    <<32, 104, 97, 116, 101>>

\* " likely"
Ans_likely ==
    <<32, 108, 105, 107, 101, 108, 121>>

\* " might"
Ans_might ==
    <<32, 109, 105, 103, 104, 116>>

\* Fragments of provider answers made of section headers and bodies.
\* "Overall Assessment: ok\n"
Sec_overall ==
    <<79, 118, 101, 114, 97, 108, 108, 32, 65, 115, 115, 101, 115, 115, 109, 101, 110, 116, 58, 32,
    111, 107, 10>>

\* "Specific Issues: none\n"
Sec_issues ==
    <<83, 112, 101, 99, 105, 102, 105, 99, 32, 73, 115, 115, 117, 101, 115, 58, 32, 110, 111, 110,
    101, 10>>

\* "Specific Issues: 1. spam\n"
Sec_issuesNumbered ==
    <<83, 112, 101, 99, 105, 102, 105, 99, 32, 73, 115, 115, 117, 101, 115, 58, 32, 49, 46, 32, 115,
    112, 97, 109, 10>>

\* "Reasoning: benign\n"
Sec_reasoning ==
    <<82, 101, 97, 115, 111, 110, 105, 110, 103, 58, 32, 98, 101, 110, 105, 103, 110, 10>>

\* "Reasoning:\n"
Sec_reasoningEmpty ==
    <<82, 101, 97, 115, 111, 110, 105, 110, 103, 58, 10>>

\* "Recommendations: publish\n"
Sec_recommendations ==
    <<82, 101, 99, 111, 109, 109, 101, 110, 100, 97, 116, 105, 111, 110, 115, 58, 32, 112, 117, 98,
    108, 105, 115, 104, 10>>

\* "1. It is fine.\n\n\n\n"
Sec_plain ==
    <<49, 46, 32, 73, 116, 32, 105, 115, 32, 102, 105, 110, 101, 46, 10, 10, 10, 10>>

\* contentType of RequestBody; "audio" stands for any value outside the union.
Str_text == <<116, 101, 120, 116>>
Str_audio == <<97, 117, 100, 105, 111>>
ContentTypes == {Str_image, Str_video, Str_text, Str_audio}

\* Code units the generated contents are made of: 'a' and U+FFFF (five of the
\* latter make the hash wrap around).
ContentAlphabet == {97, 65535}

RECURSIVE StringsUpTo(_, _)
StringsUpTo(alphabet, n) ==
    IF n = 0 THEN {<<>>}
    ELSE LET shorter == StringsUpTo(alphabet, n - 1)
         IN  shorter \cup {Append(s, c) : s \in shorter, c \in alphabet}

ContentSamples ==
    {In_hello, In_text3, In_httpUrl, In_httpsUrl, In_dataUrl, In_dataUrlJpeg,
     In_dataUrlNoPayload, In_dataUrlNoComma, In_polygenelubricants, In_emoji,
     In_loneSurrogates}

\* Every content the fallback synthesizer is applied to (the empty string included).
Contents == StringsUpTo(ContentAlphabet, MaxContentLen) \cup ContentSamples

\* The contents of the requests the handler receives; <<>> is a missing or empty one.
RequestContents ==
    {<<>>, In_hello, In_text3, In_httpUrl, In_httpsUrl, In_dataUrl, In_dataUrlJpeg,
     In_dataUrlNoPayload, In_dataUrlNoComma, In_dataUrlOctets, In_httpWord}

Vocabulary ==
    {Tok_un, Tok_safe, Tok_UNSAFE, Tok_violates, Tok_Inappropriate, Tok_because,
     Tok_issues, Tok_definitely, Tok_uncertain, Tok_adult, Tok_mockMarker}

RECURSIVE TextsUpTo(_)
TextsUpTo(n) ==
    IF n = 0 THEN {<<>>}
    ELSE LET shorter == TextsUpTo(n - 1)
         IN  shorter \cup {s \o t : s \in shorter, t \in Vocabulary}

\* The texts the completion capability may answer with (the empty text included).
ProviderTexts == TextsUpTo(MaxTokens)

\* The answers the verdict extractor alone is applied to: those made of verdict
\* wording, and those made of section headers with their bodies.
ReasonWords ==
    {Ans_thisContentIsUnsafe, Tok_violates, Tok_because, Ans_becauseNewline, Tok_issues,
     Ans_anIssue}

CategoryWords == {Ans_thisContentIsUnsafe, Ans_graphicViolence, Tok_adult, Ans_hate}

CertaintyWords ==
    {Ans_thisContentIsUnsafe, Tok_definitely, Ans_likely, Ans_might, Tok_uncertain}

SectionWords ==
    {Sec_overall, Sec_issues, Sec_issuesNumbered, Sec_reasoning, Sec_reasoningEmpty,
     Sec_recommendations, Sec_plain}

\* The sequences of at most n different words.
RECURSIVE Arrangements(_, _)
Arrangements(words, n) ==
    IF n = 0 THEN {<<>>}
    ELSE LET shorter == Arrangements(words, n - 1)
         IN  shorter \cup UNION {{Append(s, w) : w \in {v \in words : \A k \in 1..Len(s) : s[k] # v}} :
                                     s \in shorter}

RECURSIVE Concatenation(_)
Concatenation(words) == IF words = <<>> THEN <<>> ELSE Head(words) \o Concatenation(Tail(words))

VerdictAnswers ==
    {Concatenation(a) : a \in Arrangements(ReasonWords, MaxAnswerWords)
                              \cup Arrangements(CategoryWords, MaxAnswerWords)
                              \cup Arrangements(CertaintyWords, MaxAnswerWords)} \ {<<>>}

SectionAnswers == {Concatenation(a) : a \in Arrangements(SectionWords, MaxSections)} \ {<<>>}

\* The bodies the media fetch may return.
MediaBodies == {SubSeq(<<77, 97, 110, 255, 0, 16>>, 1, n) : n \in 0..MaxBodyLen}

(***************************************************************************)
(* JavaScript string operations                                            *)
(***************************************************************************)
Min(S) == CHOOSE x \in S : \A y \in S : x <= y
Max(S) == CHOOSE x \in S : \A y \in S : x >= y

\* The value of an absent array element or property.
Undefined == <<-1>>

\* !x for x a string or undefined
Falsy(x) == x = Undefined \/ x = <<>>

startsWith(s, p) == Len(s) >= Len(p) /\ SubSeq(s, 1, Len(p)) = p

\* `word` stands in s at place i
matchesAt(s, i, word) == \A j \in 1..Len(word) : s[i + j - 1] = word[j]

includes(s, w) == \E i \in 1..(Len(s) - Len(w) + 1) : matchesAt(s, i, w)

\* ASCII letters only: the model's texts hold no other cased letter.
lowerChar(c) == IF c \in 65..90 THEN c + 32 ELSE c

toLowerCase(s) == [i \in 1..Len(s) |-> lowerChar(s[i])]

\* WhiteSpace and LineTerminator code units (the \s class, and what trim removes).
WhiteSpace == {9, 10, 11, 12, 13, 32, 160, 5760, 8232, 8233, 8239, 8287, 12288, 65279} \cup (8192..8202)

\* What "." does not match without the s flag.
LineTerminators == {10, 13, 8232, 8233}

trim(s) ==
    LET kept == {i \in 1..Len(s) : s[i] \notin WhiteSpace}
    IN  IF kept = {} THEN <<>> ELSE SubSeq(s, Min(kept), Max(kept))

\* s.split(sep) for a one-character separator
RECURSIVE split(_, _)
split(s, sep) ==
    LET at == {i \in 1..Len(s) : s[i] = sep[1]}
    IN  IF at = {} THEN <<s>>
        ELSE <<SubSeq(s, 1, Min(at) - 1)>> \o split(SubSeq(s, Min(at) + 1, Len(s)), sep)

\* array[k] with JavaScript's zero-based k
elementAt(array, k) == IF k + 1 <= Len(array) THEN array[k + 1] ELSE Undefined

\* Array.from(string): one element per code point, a surrogate pair being one element.
RECURSIVE ArrayFrom(_)
ArrayFrom(s) ==
    IF s = <<>> THEN <<>>
    ELSE IF Len(s) >= 2 /\ s[1] \in 55296..56319 /\ s[2] \in 56320..57343
         THEN <<SubSeq(s, 1, 2)>> \o ArrayFrom(SubSeq(s, 3, Len(s)))
         ELSE <<SubSeq(s, 1, 1)>> \o ArrayFrom(Tail(s))

charCodeAt0(char) == char[1]

(***************************************************************************)
(* 32-bit integer arithmetic (the results of << and | 0)                   *)
(***************************************************************************)
Half == 2^16

Int32Zero == [hi |-> 0, lo |-> 0]

Int32Of(n) == [hi |-> (n \div Half) % Half, lo |-> n % Half]

Add32(a, b) ==
    LET lo == a.lo + b.lo
        hi == a.hi + b.hi + (lo \div Half)
    IN  [hi |-> hi % Half, lo |-> lo % Half]

Neg32(a) == Add32([hi |-> (Half - 1) - a.hi, lo |-> (Half - 1) - a.lo], Int32Of(1))

Sub32(a, b) == Add32(a, Neg32(b))

\* a << 5
ShiftLeft5(a) ==
    LET lo == a.lo * 32
        hi == a.hi * 32 + (lo \div Half)
    IN  [hi |-> hi % Half, lo |-> lo % Half]

IsNegative32(a) == a.hi >= Half \div 2

\* Math.abs of an int32: a double, so that Math.abs(-2^31) is 2^31 (kept in halves)
MathAbs(a) == IF IsNegative32(a) THEN Neg32(a) ELSE a

\* n % m for a non-negative n kept in halves
Remainder(n, m) == ((n.hi % m) * (Half % m) + (n.lo % m)) % m

(***************************************************************************)
(* createMockAnalysis: the fallback synthesizer                            *)
(***************************************************************************)
\* Mutant: the hash step without "- hash" (a 32*h + c hash).
hashStep_NoSubtract(hash, char) == Add32(ShiftLeft5(hash), Int32Of(charCodeAt0(char)))

\* ((hash << 5) - hash + char.charCodeAt(0)) | 0
hashStep(hash, char) == Add32(Sub32(ShiftLeft5(hash), hash), Int32Of(charCodeAt0(char)))

\* chars.reduce((hash, char) => ..., hash); the test of `next` only makes the
\* evaluation of each step happen before the following one starts.
RECURSIVE reduce(_, _)
reduce(chars, hash) ==
    IF chars = <<>> THEN hash
    ELSE LET next == hashStep(hash, Head(chars))
         IN  IF next.hi >= 0 THEN reduce(Tail(chars), next) ELSE next

contentHash(content) == reduce(ArrayFrom(content), Int32Zero)

\* Mutant: the verdict decided by the hash modulo 3.
mockIsSafe_Mod3(hash) == Remainder(MathAbs(hash), 3) # 0

mockIsSafe(hash) == Remainder(MathAbs(hash), 5) # 0

\* Mutant: the two branches' formulas exchanged.
mockConfidence_Swapped(hash, safe) ==
    IF safe THEN 65 + Remainder(MathAbs(hash), 20) ELSE 85 + Remainder(MathAbs(hash), 15)

\* Mutant: the safe branch reusing the unsafe branch's modulus.
mockConfidence_SharedModulus(hash, safe) ==
    IF safe THEN 85 + Remainder(MathAbs(hash), 20) ELSE 65 + Remainder(MathAbs(hash), 20)

\* confidence in hundredths
mockConfidence(hash, safe) ==
    IF safe THEN 85 + Remainder(MathAbs(hash), 15) ELSE 65 + Remainder(MathAbs(hash), 20)

mockReason(contentType, safe) ==
    IF safe THEN Str_ContentAppearsSafe
    ELSE IF contentType = Str_image THEN Str_MockImageReason
    ELSE IF contentType = Str_video THEN Str_MockVideoReason
    ELSE Str_MockTextReason

\* Mutant: the video branch dropped, video falling through to the text category.
mockCategory_NoVideo(contentType, safe) ==
    IF safe THEN Str_safe
    ELSE IF contentType = Str_image THEN Str_visualPolicyViolation
    ELSE Str_textPolicyViolation

\* Mutant: the last branch of the unsafe categories falling back to "safe".
mockCategory_SafeDefault(contentType, safe) ==
    IF safe THEN Str_safe
    ELSE IF contentType = Str_image THEN Str_visualPolicyViolation
    ELSE IF contentType = Str_video THEN Str_videoPolicyViolation
    ELSE Str_safe

mockCategory(contentType, safe) ==
    IF safe THEN Str_safe
    ELSE IF contentType = Str_image THEN Str_visualPolicyViolation
    ELSE IF contentType = Str_video THEN Str_videoPolicyViolation
    ELSE Str_textPolicyViolation

mockDetailedAnalysis(contentType, safe) ==
    IF safe THEN Str_MockSafeDetailHead \o contentType \o Str_MockSafeDetailTail
    ELSE IF contentType = Str_image THEN Str_MockImageDetail
    ELSE IF contentType = Str_video THEN Str_MockVideoDetail
    ELSE Str_MockTextDetail

mockResult(hash, contentType) ==
    LET safe == mockIsSafe(hash)
    IN  [safe |-> safe,
         reason |-> mockReason(contentType, safe),
         category |-> mockCategory(contentType, safe),
         confidence |-> mockConfidence(hash, safe),
         aiResponse |-> Str_MockPrefix \o mockReason(contentType, safe) \o Str_MockSuffix,
         detailedAnalysis |-> mockDetailedAnalysis(contentType, safe)]

\* Mutant: the content type hashed together with the content.
createMockAnalysis_TypeInHash(content, contentType) ==
    mockResult(contentHash(content \o contentType), contentType)

createMockAnalysis(content, contentType) == mockResult(contentHash(content), contentType)

(***************************************************************************)
(* The verdict extractor                                                   *)
(***************************************************************************)
\* Mutant: the answer searched without case folding.
isSafe_CaseSensitive(aiResponse) ==
    /\ ~includes(aiResponse, Str_unsafe)
    /\ ~includes(aiResponse, Str_violate)
    /\ ~includes(aiResponse, Str_inappropriate)

isSafe(aiResponse) ==
    /\ ~includes(toLowerCase(aiResponse), Str_unsafe)
    /\ ~includes(toLowerCase(aiResponse), Str_violate)
    /\ ~includes(toLowerCase(aiResponse), Str_inappropriate)

\* [.!?]
SentenceEnd == {46, 33, 63}

\* (.+?)[.!?] with the capture starting at `from`: the places of the closing [.!?]
captureEnds(s, from) ==
    {e \in (from + 1)..Len(s) :
        /\ s[e] \in SentenceEnd
        /\ \A j \in from..(e - 1) : s[j] \notin LineTerminators}

\* the lower-case `word` stands in s at place i, letter case ignored (the i flag)
matchesAtIgnoreCase(s, i, word) ==
    IF i + Len(word) - 1 > Len(s) THEN FALSE
    ELSE \A j \in 1..Len(word) : lowerChar(s[i + j - 1]) = word[j]

\* the places where `word` stands in s, letter case ignored
occurrences(s, word) == {i \in 1..(Len(s) - Len(word) + 1) : matchesAtIgnoreCase(s, i, word)}

\* aiResponse.match(/because (.+?)[.!?]/i): the capture, or Undefined for null
reasonMatch(aiResponse) ==
    LET starts == {i \in occurrences(aiResponse, Str_because) :
                      captureEnds(aiResponse, i + Len(Str_because)) # {}}
    IN  IF starts = {} THEN Undefined
        ELSE LET from == Min(starts) + Len(Str_because)
             IN  SubSeq(aiResponse, from, Min(captureEnds(aiResponse, from)) - 1)

\* the length of the run of characters of `class` that starts at `from`
runLength(s, from, class) ==
    LET stops == {j \in from..Len(s) : s[j] \notin class}
    IN  IF stops = {} THEN Len(s) + 1 - from ELSE Min(stops) - from

\* where \s+ may end after issue[s]?:? matched at i: the capture starts, greedy first
issueCaptureStarts(s, i) ==
    LET afterWord == i + Len(Str_issue)
        afterS == IF afterWord <= Len(s) /\ lowerChar(s[afterWord]) = 115
                  THEN afterWord + 1 ELSE afterWord
        afterColon == IF afterS <= Len(s) /\ s[afterS] = 58 THEN afterS + 1 ELSE afterS
    IN  {afterColon + k : k \in 1..runLength(s, afterColon, WhiteSpace)}

\* aiResponse.match(/issue[s]?:?\s+(.+?)[.!?]/i): the capture, or Undefined for null
issueMatch(aiResponse) ==
    LET good(i) == {from \in issueCaptureStarts(aiResponse, i) :
                       captureEnds(aiResponse, from) # {}}
        starts == {i \in occurrences(aiResponse, Str_issue) : good(i) # {}}
    IN  IF starts = {} THEN Undefined
        ELSE LET from == Max(good(Min(starts)))
             IN  SubSeq(aiResponse, from, Min(captureEnds(aiResponse, from)) - 1)

\* Mutant: the issue pattern tried before the because pattern.
reason_IssueFirst(aiResponse, safe) ==
    IF safe THEN Str_NoSpecificIssues
    ELSE IF includes(toLowerCase(aiResponse), Str_issue) /\ issueMatch(aiResponse) # Undefined
         THEN trim(issueMatch(aiResponse))
    ELSE IF reasonMatch(aiResponse) # Undefined THEN trim(reasonMatch(aiResponse))
    ELSE Str_PotentialViolation

\* the variable reason after lines 244-260
reason(aiResponse, safe) ==
    IF safe THEN Str_NoSpecificIssues
    ELSE IF reasonMatch(aiResponse) # Undefined THEN trim(reasonMatch(aiResponse))
    ELSE IF includes(toLowerCase(aiResponse), Str_issue)
         THEN IF issueMatch(aiResponse) # Undefined THEN trim(issueMatch(aiResponse))
              ELSE Str_PotentialViolation
         ELSE Str_PotentialViolation

Digits == 48..57

\* \d+\. standing at q
numberingAt(s, q) ==
    /\ q <= Len(s)
    /\ s[q] \in Digits
    /\ LET after == q + runLength(s, q, Digits) IN after <= Len(s) /\ s[after] = 46

sectionTitles == <<Str_OverallAssessment, Str_SpecificIssues, Str_Reasoning, Str_Recommendations>>

\* (other titles|\d+\.|\n\n|$) standing at q, for the section `title`
sectionEndAt(s, title, q) ==
    \/ \E k \in 1..Len(sectionTitles) :
          /\ sectionTitles[k] # title
          /\ matchesAtIgnoreCase(s, q, toLowerCase(sectionTitles[k]))
    \/ numberingAt(s, q)
    \/ q + 1 <= Len(s) /\ s[q] = 10 /\ s[q + 1] = 10
    \/ q = Len(s) + 1

\* (.*?) with the s flag, starting at q: the capture grows by one character at a
\* time until the second group matches; the place where that group starts
RECURSIVE sectionCaptureEnd(_, _, _)
sectionCaptureEnd(s, title, q) ==
    IF sectionEndAt(s, title, q) THEN q ELSE sectionCaptureEnd(s, title, q + 1)

\* aiResponse.match(section.regex): match[1], or Undefined for no match
sectionMatch(aiResponse, title) ==
    LET heads == occurrences(aiResponse, toLowerCase(title))
    IN  IF heads = {} THEN Undefined
        ELSE LET afterTitle == Min(heads) + Len(title)
                 from == afterTitle + runLength(aiResponse, afterTitle, WhiteSpace \cup {58})
                 to == sectionCaptureEnd(aiResponse, title, from)
             IN  SubSeq(aiResponse, from, to - 1)

sectionPlaceholder(title) ==
    Str_Bold \o title \o Str_BoldColon \o Str_No \o toLowerCase(title) \o Str_Provided
        \o Str_NewlineNewline

\* Mutant: a section without a match left out instead of given its placeholder.
sectionText_Dropped(aiResponse, title) ==
    LET captured == sectionMatch(aiResponse, title)
    IN  IF ~Falsy(captured) /\ trim(captured) # <<>>
        THEN Str_Bold \o title \o Str_BoldColon \o trim(captured) \o Str_NewlineNewline
        ELSE <<>>

\* one turn of the loop of lines 313-326
sectionText(aiResponse, title) ==
    LET captured == sectionMatch(aiResponse, title)
    IN  IF ~Falsy(captured) /\ trim(captured) # <<>>
        THEN Str_Bold \o title \o Str_BoldColon \o trim(captured) \o Str_NewlineNewline
        ELSE sectionPlaceholder(title)

\* ^ with the m flag
lineStartAt(s, i) == i = 1 \/ (i - 1 <= Len(s) /\ s[i - 1] \in LineTerminators)

\* .replace(/^\d+\.\s*/gm, '')
RECURSIVE removeNumbering(_, _)
removeNumbering(s, i) ==
    IF i > Len(s) THEN <<>>
    ELSE IF lineStartAt(s, i) /\ numberingAt(s, i)
         THEN LET afterDot == i + runLength(s, i, Digits) + 1
              IN  removeNumbering(s, afterDot + runLength(s, afterDot, WhiteSpace))
         ELSE <<s[i]>> \o removeNumbering(s, i + 1)

\* .replace(/\n{3,}/g, '\n\n')
RECURSIVE normalizeSpacing(_, _)
normalizeSpacing(s, i) ==
    IF i > Len(s) THEN <<>>
    ELSE IF runLength(s, i, {10}) >= 3
         THEN Str_NewlineNewline \o normalizeSpacing(s, i + runLength(s, i, {10}))
         ELSE <<s[i]>> \o normalizeSpacing(s, i + 1)

extractDetailedAnalysis(aiResponse) ==
    LET structuredAnalysis ==
            sectionText(aiResponse, sectionTitles[1]) \o sectionText(aiResponse, sectionTitles[2])
                \o sectionText(aiResponse, sectionTitles[3]) \o sectionText(aiResponse, sectionTitles[4])
    IN  IF structuredAnalysis = <<>>
        THEN normalizeSpacing(removeNumbering(aiResponse, 1), 1)
        ELSE structuredAnalysis

\* Mutant: the hate speech group tested before the adult content group.
determineCategoryFromAnalysis_HateFirst(aiResponse, contentType, safe) ==
    LET lowerResponse == toLowerCase(aiResponse)
    IN  IF safe THEN Str_safe
        ELSE IF \/ includes(lowerResponse, Str_violence)
                \/ includes(lowerResponse, Str_graphic)
                \/ includes(lowerResponse, Str_harmful)
             THEN contentType \o Str_policyViolationSuffix
        ELSE IF \/ includes(lowerResponse, Str_hate)
                \/ includes(lowerResponse, Str_discriminat)
                \/ includes(lowerResponse, Str_offensive)
             THEN contentType \o Str_hateSpeechSuffix
        ELSE IF \/ includes(lowerResponse, Str_sexual)
                \/ includes(lowerResponse, Str_explicit)
                \/ includes(lowerResponse, Str_adult)
             THEN contentType \o Str_adultContentSuffix
        ELSE contentType \o Str_policyViolationSuffix

determineCategoryFromAnalysis(aiResponse, contentType, safe) ==
    LET lowerResponse == toLowerCase(aiResponse)
    IN  IF safe THEN Str_safe
        ELSE IF \/ includes(lowerResponse, Str_violence)
                \/ includes(lowerResponse, Str_graphic)
                \/ includes(lowerResponse, Str_harmful)
             THEN contentType \o Str_policyViolationSuffix
        ELSE IF \/ includes(lowerResponse, Str_sexual)
                \/ includes(lowerResponse, Str_explicit)
                \/ includes(lowerResponse, Str_adult)
             THEN contentType \o Str_adultContentSuffix
        ELSE IF \/ includes(lowerResponse, Str_hate)
                \/ includes(lowerResponse, Str_discriminat)
                \/ includes(lowerResponse, Str_offensive)
             THEN contentType \o Str_hateSpeechSuffix
        ELSE contentType \o Str_policyViolationSuffix

\* Mutant: the adjustments of all the groups found added up (if instead of else if).
certaintyAdjustment_Cumulative(lowerResponse) ==
    (IF \/ includes(lowerResponse, Str_definitely)
        \/ includes(lowerResponse, Str_certainly)
        \/ includes(lowerResponse, Str_clearly)
     THEN 15 ELSE 0)
    + (IF includes(lowerResponse, Str_likely) \/ includes(lowerResponse, Str_probably)
       THEN 5 ELSE 0)
    + (IF \/ includes(lowerResponse, Str_possibly)
          \/ includes(lowerResponse, Str_might)
          \/ includes(lowerResponse, Str_couldBe)
       THEN -10 ELSE 0)
    + (IF includes(lowerResponse, Str_uncertain) \/ includes(lowerResponse, Str_unclear)
       THEN -20 ELSE 0)

\* the adjustment of lines 365-373, in hundredths
certaintyAdjustment(lowerResponse) ==
    IF \/ includes(lowerResponse, Str_definitely)
       \/ includes(lowerResponse, Str_certainly)
       \/ includes(lowerResponse, Str_clearly)
    THEN 15
    ELSE IF includes(lowerResponse, Str_likely) \/ includes(lowerResponse, Str_probably)
    THEN 5
    ELSE IF \/ includes(lowerResponse, Str_possibly)
            \/ includes(lowerResponse, Str_might)
            \/ includes(lowerResponse, Str_couldBe)
    THEN -10
    ELSE IF includes(lowerResponse, Str_uncertain) \/ includes(lowerResponse, Str_unclear)
    THEN -20
    ELSE 0

\* Mutant: the base of a safe verdict raised to 0.9.
calculateConfidence_HighBase(aiResponse, safe) ==
    LET confidence == (IF safe THEN 90 ELSE 75) + certaintyAdjustment(toLowerCase(aiResponse))
    IN  Max({50, Min({99, confidence})})

\* confidence in hundredths
calculateConfidence(aiResponse, safe) ==
    LET confidence == (IF safe THEN 80 ELSE 75) + certaintyAdjustment(toLowerCase(aiResponse))
    IN  Max({50, Min({99, confidence})})

\* Mutant: the variable reason returned as it is, without the canned text of line 269.
analysisResult_RawReason(aiResponse, contentType) ==
    [safe |-> isSafe(aiResponse),
     reason |-> reason(aiResponse, isSafe(aiResponse)),
     category |-> determineCategoryFromAnalysis(aiResponse, contentType, isSafe(aiResponse)),
     confidence |-> calculateConfidence(aiResponse, isSafe(aiResponse)),
     aiResponse |-> aiResponse,
     detailedAnalysis |-> extractDetailedAnalysis(aiResponse)]

\* Mutant: the optional field detailedAnalysis of AnalysisResult left out.
analysisResult_NoDetail(aiResponse, contentType) ==
    [safe |-> isSafe(aiResponse),
     reason |-> IF isSafe(aiResponse) THEN Str_ContentAppearsSafe
                ELSE reason(aiResponse, isSafe(aiResponse)),
     category |-> determineCategoryFromAnalysis(aiResponse, contentType, isSafe(aiResponse)),
     confidence |-> calculateConfidence(aiResponse, isSafe(aiResponse)),
     aiResponse |-> aiResponse]

\* lines 238-274: the verdict extracted from the provider's answer
analysisResult(aiResponse, contentType) ==
    LET safe == isSafe(aiResponse)
    IN  [safe |-> safe,
         reason |-> IF safe THEN Str_ContentAppearsSafe ELSE reason(aiResponse, safe),
         category |-> determineCategoryFromAnalysis(aiResponse, contentType, safe),
         confidence |-> calculateConfidence(aiResponse, safe),
         aiResponse |-> aiResponse,
         detailedAnalysis |-> extractDetailedAnalysis(aiResponse)]

(***************************************************************************)
(* The serve handler                                                       *)
(***************************************************************************)
VARIABLES
    GEMINI_API_KEY,     \* the module constant of line 4
    pc,                 \* the handler's position
    received,           \* what the request was: "none", "options", "unparsable", "body"
    content,            \* requestBody.content
    contentType,        \* requestBody.contentType
    prompt,
    geminiPayload,      \* contents[0].parts: the text part and the inline_data parts
    imageBuffer,        \* the bytes read from the media fetch's response (line 116)
    aiResponse,
    responses,          \* the responses returned for the current request
    escaped,            \* an exception left the handler
    fetchCalls,         \* fetch(content) calls of the current request
    completionCalls,    \* fetch(apiUrl) calls of the current request
    mockCalls,          \* createMockAnalysis calls of the current request
    fault,              \* the throw site or failed check of the current request, or "none"
    source,             \* where the response was built: "none", "extract", "fallback", "error"
    mockFirst,          \* the first invocation of the fallback synthesizer alone
    mockLast,           \* its latest invocation
    extractLast,        \* the invocation of the verdict extractor alone
    invocations,        \* the invocations of the handler that run interleaved
    upload              \* the Upload page: its React state and its submissions in flight

requestVars == <<received, content, contentType>>
workVars == <<prompt, geminiPayload, imageBuffer, aiResponse>>
callVars == <<fetchCalls, completionCalls>>
resultVars == <<pc, responses, escaped, mockCalls, fault, source>>
fallbackVars == <<mockFirst, mockLast, extractLast, invocations, upload>>
vars == <<GEMINI_API_KEY, requestVars, workVars, callVars, resultVars, fallbackVars>>

\* Deno.env.get("GEMINI_API_KEY"): unset, empty, blank, or a key
EnvValues == {Undefined, <<>>, <<32, 9, 32>>, <<32, 107, 51, 121>>}

\* Deno.env.get("GEMINI_API_KEY") || ""
apiKeyOf(env) == IF Falsy(env) THEN <<>> ELSE env

\* Mutant: the key only tested for being empty, not trimmed.
apiKeyMissing_NoTrim(key) == Falsy(key)

\* !GEMINI_API_KEY || GEMINI_API_KEY.trim() === ""
apiKeyMissing(key) == Falsy(key) \/ trim(key) = <<>>

NoPayload == [text |-> Undefined, inline_data |-> <<>>]

\* Mutant: the try block of line 82 missing, its exceptions reaching the outer catch.
catchOf_NoApiTry(site) ==
    CASE site \in {"req.json"} -> "catchParse"
      [] site \in {"fetch(content)", "imageResponse.ok", "arrayBuffer", "fromCharCode"} -> "catchImageUrl"
      [] site \in {"base64Image"} -> "catchDataUrl"
      [] site \in {"fetch(apiUrl)", "geminiResponse.text", "geminiResponse.json",
                   "geminiData.candidates", "aiResponse.substring"} -> "catchOuter"
      [] OTHER -> "uncaught"

\* The try block whose catch clause receives an exception thrown at `site`.
catchOf(site) ==
    CASE site \in {"req.json"} -> "catchParse"
      [] site \in {"fetch(content)", "imageResponse.ok", "arrayBuffer", "fromCharCode"} -> "catchImageUrl"
      [] site \in {"base64Image"} -> "catchDataUrl"
      [] site \in {"fetch(apiUrl)", "geminiResponse.text", "geminiResponse.json",
                   "geminiData.candidates", "aiResponse.substring"} -> "catchApi"
      [] OTHER -> "uncaught"

\* the body of the 204 response of line 32
nullBody == [null |-> TRUE]

\* the bodies of the 400 and 500 responses
errorBody(error, reasonText) == [error |-> error, safe |-> FALSE, reason |-> reasonText]

errorBodyWithDetails(error, details, reasonText) ==
    [error |-> error, details |-> details, safe |-> FALSE, reason |-> reasonText]

\* the prompt of lines 84-96
buildPrompt(type) ==
    Str_PromptHead \o (IF type = Str_image THEN Str_PromptImage
                       ELSE IF type = Str_video THEN Str_PromptVideo
                       ELSE Str_PromptText)

\* Mutant: the bytes after the last whole group of three left out.
RECURSIVE btoa_Truncating(_)
btoa_Truncating(bytes) ==
    IF Len(bytes) < 3 THEN <<>>
    ELSE LET b1 == bytes[1]
             b2 == bytes[2]
             b3 == bytes[3]
             digit(k) == Str_Base64Alphabet[k + 1]
         IN  <<digit(b1 \div 4), digit((b1 % 4) * 16 + (b2 \div 16)),
               digit((b2 % 16) * 4 + (b3 \div 64)), digit(b3 % 64)>>
             \o btoa_Truncating(SubSeq(bytes, 4, Len(bytes)))

\* btoa of a string of bytes
RECURSIVE btoa(_)
btoa(bytes) ==
    IF bytes = <<>> THEN <<>>
    ELSE LET n == Len(bytes)
             b1 == bytes[1]
             b2 == IF n >= 2 THEN bytes[2] ELSE 0
             b3 == IF n >= 3 THEN bytes[3] ELSE 0
             digit(k) == Str_Base64Alphabet[k + 1]
         IN  <<digit(b1 \div 4),
               digit((b1 % 4) * 16 + (b2 \div 16)),
               IF n >= 2 THEN digit((b2 % 16) * 4 + (b3 \div 64)) ELSE 61,
               IF n >= 3 THEN digit(b3 % 64) ELSE 61>>
             \o (IF n > 3 THEN btoa(SubSeq(bytes, 4, n)) ELSE <<>>)

\* String.fromCharCode(...new Uint8Array(imageBuffer))
fromCharCode(bytes) == [i \in 1..Len(bytes) |-> bytes[i] % Half]

imagePayload(text, mimeType, data) ==
    [text |-> text, inline_data |-> <<[mime_type |-> mimeType, data |-> data]>>]

textPayload(text) == [text |-> text, inline_data |-> <<>>]

\* content.split(',')[1]
base64Image(c) == elementAt(split(c, Str_comma), 1)

\* content.split(';')[0].split(':')[1]
dataUrlMimeType(c) == elementAt(split(elementAt(split(c, Str_semicolon), 0), Str_colon), 1)

\* The invocations of the handler that are in flight together: each is one call of
\* the function passed to serve, with its own locals.
Invocations == 1..MaxInvocations

\* An invocation before its request has come: none of its locals is assigned.
Idle ==
    [pc |-> "idle", content |-> Undefined, contentType |-> Undefined,
     geminiPayload |-> NoPayload, media |-> <<>>, answer |-> <<>>, response |-> <<>>]

\* null, where the other values are records, and where they are strings
JsNull == [null |-> TRUE]
Null == <<-2>>

\* No analysis since the form was last touched, and no call to the tables.
NoAnalysis == [outcome |-> "none", content |-> Null, contentType |-> Null, returned |-> JsNull]
NoCall == [table |-> "none"]

\* Upload.tsx lines 29-38: the state of the page as useState initializes it. pc is
\* where the submission that keeps the form disabled waits ("idle" when there is
\* none); pending holds the submissions past their analysis, which wait for the
\* tables. latest records the latest call of analyzeContent, obtained the latest
\* verdict the function returned, lastCall the latest call to a table.
UploadPage ==
    [url |-> <<>>, caption |-> <<>>, contentType |-> Str_video,
     isUploading |-> FALSE, isAnalyzing |-> FALSE,
     result |-> "null", file |-> JsNull, analysisDetails |-> JsNull,
     lastAnalyzedContent |-> Null,
     pc |-> "idle", contentToAnalyze |-> Null, pending |-> <<>>,
     latest |-> NoAnalysis, obtained |-> JsNull, lastCall |-> NoCall]

Init ==
    /\ \E env \in EnvValues : GEMINI_API_KEY = apiKeyOf(env)
    /\ pc = "start"
    /\ received = "none"
    /\ content = Undefined
    /\ contentType = Undefined
    /\ prompt = Undefined
    /\ geminiPayload = NoPayload
    /\ imageBuffer = Undefined
    /\ aiResponse = Undefined
    /\ responses = <<>>
    /\ escaped = FALSE
    /\ fetchCalls = 0
    /\ completionCalls = 0
    /\ mockCalls = 0
    /\ fault = "none"
    /\ source = "none"
    /\ mockFirst = <<>>
    /\ mockLast = <<>>
    /\ extractLast = <<>>
    /\ invocations = [i \in Invocations |-> Idle]
    /\ upload = UploadPage

\* The handler goes on to its next step.
Continue(next) ==
    /\ pc' = next
    /\ UNCHANGED <<responses, escaped, fault, source>>

\* return new Response(JSON.stringify(body), { status, headers })
Return(status, body, from, failed) ==
    /\ responses' = Append(responses, [status |-> status, body |-> body])
    /\ pc' = "done"
    /\ source' = from
    /\ fault' = failed
    /\ UNCHANGED escaped

\* const mockResult = createMockAnalysis(content, contentType); return new Response(...)
ReturnMock(failed) ==
    /\ mockCalls' = mockCalls + 1
    /\ Return(200, createMockAnalysis(content, contentType), "fallback", failed)

\* An exception thrown at `site` is handled by the catch clause around it.
Throw(site) ==
    LET handler == catchOf(site)
    IN  CASE handler = "catchParse" ->
                /\ Return(400, errorBodyWithDetails(Str_InvalidRequestBody, site,
                                                     Str_InvalidRequestFormat), "error", site)
                /\ UNCHANGED mockCalls
          [] handler \in {"catchImageUrl", "catchDataUrl", "catchApi"} -> ReturnMock(site)
          [] handler = "catchOuter" ->
                /\ Return(500, errorBodyWithDetails(Str_InternalServerError, site,
                                                     Str_ServerError), "error", site)
                /\ UNCHANGED mockCalls
          [] OTHER ->
                /\ escaped' = TRUE
                /\ pc' = "done"
                /\ fault' = site
                /\ UNCHANGED <<responses, mockCalls, source>>

\* lines 31-33: a preflight request
Preflight ==
    /\ pc = "start"
    /\ received' = "options"
    /\ Return(204, nullBody, "preflight", "none")
    /\ UNCHANGED <<GEMINI_API_KEY, content, contentType, workVars, callVars, mockCalls, fallbackVars>>

\* lines 38-52: req.json() throws
ParseFails ==
    /\ pc = "start"
    /\ received' = "unparsable"
    /\ Throw("req.json")
    /\ UNCHANGED <<GEMINI_API_KEY, content, contentType, workVars, callVars, fallbackVars>>

\* lines 38-54: the body is parsed
Receive(c, t) ==
    /\ pc = "start"
    /\ received' = "body"
    /\ content' = c
    /\ contentType' = t
    /\ Continue("validate")
    /\ UNCHANGED <<GEMINI_API_KEY, workVars, callVars, mockCalls, fallbackVars>>

\* Mutant: the key check of lines 70-79 made ahead of the content check.
Validate_KeyFirst ==
    /\ pc = "validate"
    /\ IF apiKeyMissing(GEMINI_API_KEY)
       THEN ReturnMock("GEMINI_API_KEY")
       ELSE /\ IF Falsy(content)
               THEN Return(400, errorBody(Str_ContentIsRequired, Str_MissingContent), "error",
                           "!content")
               ELSE Continue("buildPrompt")
            /\ UNCHANGED mockCalls
    /\ UNCHANGED <<GEMINI_API_KEY, requestVars, workVars, callVars, fallbackVars>>

\* lines 56-65
Validate ==
    /\ pc = "validate"
    /\ IF Falsy(content)
       THEN Return(400, errorBody(Str_ContentIsRequired, Str_MissingContent), "error", "!content")
       ELSE Continue("checkKey")
    /\ UNCHANGED <<GEMINI_API_KEY, requestVars, workVars, callVars, mockCalls, fallbackVars>>

\* lines 67-79: without a key the mock analysis is returned at once
CheckKey ==
    /\ pc = "checkKey"
    /\ IF apiKeyMissing(GEMINI_API_KEY)
       THEN ReturnMock("GEMINI_API_KEY")
       ELSE Continue("buildPrompt") /\ UNCHANGED mockCalls
    /\ UNCHANGED <<GEMINI_API_KEY, requestVars, workVars, callVars, fallbackVars>>

\* lines 84-96
BuildPrompt ==
    /\ pc = "buildPrompt"
    /\ prompt' = buildPrompt(contentType)
    /\ Continue("buildPayload")
    /\ UNCHANGED <<GEMINI_API_KEY, requestVars, geminiPayload, imageBuffer, aiResponse, callVars,
                   mockCalls, fallbackVars>>

\* Mutant: the test of line 103 for the content type left out.
BuildPayload_AnyType ==
    /\ pc = "buildPayload"
    /\ IF startsWith(content, Str_http)
       THEN /\ Continue("fetchImage")
            /\ UNCHANGED <<geminiPayload, mockCalls>>
       ELSE IF startsWith(content, Str_dataImage)
       THEN IF Falsy(base64Image(content))
            THEN Throw("base64Image") /\ UNCHANGED geminiPayload
            ELSE /\ geminiPayload' = imagePayload(prompt, dataUrlMimeType(content),
                                                  base64Image(content))
                 /\ Continue("callGemini")
                 /\ UNCHANGED mockCalls
       ELSE /\ geminiPayload' = textPayload(prompt \o Str_ContentLabel \o content)
            /\ Continue("callGemini")
            /\ UNCHANGED mockCalls
    /\ UNCHANGED <<GEMINI_API_KEY, requestVars, prompt, imageBuffer, aiResponse, callVars,
                   fallbackVars>>

\* lines 98-205, up to the media fetch of an image URL
BuildPayload ==
    /\ pc = "buildPayload"
    /\ IF contentType = Str_image /\ startsWith(content, Str_http)
       THEN /\ Continue("fetchImage")
            /\ UNCHANGED <<geminiPayload, mockCalls>>
       ELSE IF contentType = Str_image /\ startsWith(content, Str_dataImage)
       THEN IF Falsy(base64Image(content))
            THEN Throw("base64Image") /\ UNCHANGED geminiPayload
            ELSE /\ geminiPayload' = imagePayload(prompt, dataUrlMimeType(content),
                                                  base64Image(content))
                 /\ Continue("callGemini")
                 /\ UNCHANGED mockCalls
       ELSE IF contentType = Str_image
       THEN /\ geminiPayload' = textPayload(prompt \o Str_ContentDescription \o content)
            /\ Continue("callGemini")
            /\ UNCHANGED mockCalls
       ELSE /\ geminiPayload' = textPayload(prompt \o Str_ContentLabel \o content)
            /\ Continue("callGemini")
            /\ UNCHANGED mockCalls
    /\ UNCHANGED <<GEMINI_API_KEY, requestVars, prompt, imageBuffer, aiResponse, callVars,
                   fallbackVars>>

\* fetch(content) can only go out when content parses as a URL without a base: it
\* throws a TypeError at once unless content starts with the scheme and its colon.
hasHttpScheme(c) == startsWith(c, Str_http \o <<58>>) \/ startsWith(c, Str_http \o <<115, 58>>)

\* What the media fetch may do: throw, answer with a non-OK status, fail while the
\* body is read, return a body too long to be spread into String.fromCharCode's
\* arguments, or return a body.
ImageFetchFailures == {"fetch(content)", "imageResponse.ok", "arrayBuffer", "fromCharCode"}

\* Mutant: a failed media fetch tried once more instead of thrown.
FetchImage_Retry ==
    /\ pc = "fetchImage"
    /\ fetchCalls' = fetchCalls + 1
    /\ \/ /\ fetchCalls = 0
          /\ UNCHANGED <<geminiPayload, imageBuffer, resultVars>>
       \/ \E site \in ImageFetchFailures :
            /\ fetchCalls > 0
            /\ Throw(site) /\ UNCHANGED <<geminiPayload, imageBuffer>>
       \/ \E body \in MediaBodies :
            /\ hasHttpScheme(content)
            /\ imageBuffer' = body
            /\ geminiPayload' = imagePayload(prompt, Str_imageJpeg, btoa(fromCharCode(body)))
            /\ Continue("callGemini")
            /\ UNCHANGED mockCalls
    /\ UNCHANGED <<GEMINI_API_KEY, requestVars, prompt, aiResponse, completionCalls, fallbackVars>>

\* lines 109-141: const imageResponse = await fetch(content) and what follows it
FetchImage ==
    /\ pc = "fetchImage"
    /\ fetchCalls' = fetchCalls + 1
    /\ \/ \E site \in ImageFetchFailures :
            /\ IF site = "fetch(content)" THEN TRUE ELSE hasHttpScheme(content)
            /\ Throw(site) /\ UNCHANGED <<geminiPayload, imageBuffer>>
       \/ \E body \in MediaBodies :
            /\ hasHttpScheme(content)
            /\ imageBuffer' = body
            /\ geminiPayload' = imagePayload(prompt, Str_imageJpeg, btoa(fromCharCode(body)))
            /\ Continue("callGemini")
            /\ UNCHANGED mockCalls
    /\ UNCHANGED <<GEMINI_API_KEY, requestVars, prompt, aiResponse, completionCalls, fallbackVars>>

\* What the completion call may do besides answering with a text: throw, or answer
\* OK with a body that is no JSON, that is null, or whose text is no string.
CompletionThrowSites ==
    {"fetch(apiUrl)", "geminiResponse.text", "geminiResponse.json", "geminiData.candidates",
     "aiResponse.substring"}

\* A non-OK status, or an OK answer without candidates or with an empty text.
CompletionRejections == {"!geminiResponse.ok", "!geminiData.candidates", "!text"}

\* Mutant: the test of line 228 for a missing text left out.
CallGemini_NoTextCheck ==
    /\ pc = "callGemini"
    /\ completionCalls' = completionCalls + 1
    /\ \/ \E site \in CompletionThrowSites :
            Throw(site) /\ UNCHANGED aiResponse
       \/ \E check \in CompletionRejections \ {"!text"} :
            ReturnMock(check) /\ UNCHANGED aiResponse
       \/ \E text \in ProviderTexts :
            /\ aiResponse' = text
            /\ Continue("extract")
            /\ UNCHANGED mockCalls
    /\ UNCHANGED <<GEMINI_API_KEY, requestVars, prompt, geminiPayload, imageBuffer, fetchCalls,
                   fallbackVars>>

\* lines 207-236: const geminiResponse = await fetch(apiUrl...) and what follows it
CallGemini ==
    /\ pc = "callGemini"
    /\ completionCalls' = completionCalls + 1
    /\ \/ \E site \in CompletionThrowSites :
            Throw(site) /\ UNCHANGED aiResponse
       \/ \E check \in CompletionRejections :
            ReturnMock(check) /\ UNCHANGED aiResponse
       \/ \E text \in ProviderTexts \ {<<>>} :
            /\ aiResponse' = text
            /\ Continue("extract")
            /\ UNCHANGED mockCalls
    /\ UNCHANGED <<GEMINI_API_KEY, requestVars, prompt, geminiPayload, imageBuffer, fetchCalls,
                   fallbackVars>>

\* lines 238-280
Extract ==
    /\ pc = "extract"
    /\ Return(200, analysisResult(aiResponse, contentType), "extract", "none")
    /\ UNCHANGED <<GEMINI_API_KEY, requestVars, workVars, callVars, mockCalls, fallbackVars>>

\* The next request arrives: nothing of the last one is kept but the module constant.
NextRequest ==
    /\ pc = "done"
    /\ pc' = "start"
    /\ received' = "none"
    /\ content' = Undefined
    /\ contentType' = Undefined
    /\ prompt' = Undefined
    /\ geminiPayload' = NoPayload
    /\ imageBuffer' = Undefined
    /\ aiResponse' = Undefined
    /\ responses' = <<>>
    /\ escaped' = FALSE
    /\ fetchCalls' = 0
    /\ completionCalls' = 0
    /\ mockCalls' = 0
    /\ fault' = "none"
    /\ source' = "none"
    /\ UNCHANGED <<GEMINI_API_KEY, fallbackVars>>

Next ==
    \/ Preflight
    \/ ParseFails
    \/ \E c \in RequestContents \cup {Undefined}, t \in ContentTypes : Receive(c, t)
    \/ Validate
    \/ CheckKey
    \/ BuildPrompt
    \/ BuildPayload
    \/ FetchImage
    \/ CallGemini
    \/ Extract
    \/ NextRequest

Spec == Init /\ [][Next]_vars

(***************************************************************************)
(* Invocations of the handler in flight together. An invocation runs until *)
(* its next await; the steps of the others may come in between.            *)
(***************************************************************************)
\* The requests, the media responses and the provider's answers of such invocations.
ConcurrentRequests ==
    {[content |-> In_hello, contentType |-> Str_text],
     [content |-> In_hello, contentType |-> Str_video],
     [content |-> In_httpUrl, contentType |-> Str_image],
     [content |-> In_dataUrlNoPayload, contentType |-> Str_image],
     [content |-> <<>>, contentType |-> Str_text]}

ConcurrentMedia == {[ok |-> FALSE, body |-> <<>>], [ok |-> TRUE, body |-> <<77, 97>>]}

ConcurrentAnswers ==
    {[ok |-> FALSE, text |-> <<>>], [ok |-> TRUE, text |-> Tok_safe],
     [ok |-> TRUE, text |-> Ans_thisContentIsUnsafe]}

\* return new Response(JSON.stringify(body), { status, headers }) of invocation i
respond(inv, status, body) ==
    [inv EXCEPT !.pc = "done", !.response = <<[status |-> status, body |-> body]>>]

\* lines 22-39: the request of invocation i comes and req.json() is awaited
InvocationArrives(i, req) ==
    /\ invocations[i].pc = "idle"
    /\ invocations' = [invocations EXCEPT ![i] =
            [@ EXCEPT !.pc = "req.json", !.content = req.content, !.contentType = req.contentType]]
    /\ UNCHANGED <<GEMINI_API_KEY, requestVars, workVars, callVars, resultVars, mockFirst, mockLast,
                   extractLast, upload>>

\* lines 40-210: from the parsed body to the next await, fetch(content) or fetch(apiUrl)
InvocationParsed(i) ==
    /\ invocations[i].pc = "req.json"
    /\ LET inv == invocations[i]
           c == inv.content
           t == inv.contentType
           prompt_i == buildPrompt(t)
       IN  invocations' = [invocations EXCEPT ![i] =
               IF Falsy(c)
               THEN respond(inv, 400, errorBody(Str_ContentIsRequired, Str_MissingContent))
               ELSE IF apiKeyMissing(GEMINI_API_KEY)
               THEN respond(inv, 200, createMockAnalysis(c, t))
               ELSE IF t = Str_image /\ startsWith(c, Str_http)
               THEN [inv EXCEPT !.pc = "fetch(content)"]
               ELSE IF t = Str_image /\ startsWith(c, Str_dataImage)
               THEN IF Falsy(base64Image(c))
                    THEN respond(inv, 200, createMockAnalysis(c, t))
                    ELSE [inv EXCEPT !.pc = "fetch(apiUrl)",
                                     !.geminiPayload = imagePayload(prompt_i, dataUrlMimeType(c),
                                                                    base64Image(c))]
               ELSE IF t = Str_image
               THEN [inv EXCEPT !.pc = "fetch(apiUrl)",
                                !.geminiPayload =
                                    textPayload(prompt_i \o Str_ContentDescription \o c)]
               ELSE [inv EXCEPT !.pc = "fetch(apiUrl)",
                                !.geminiPayload = textPayload(prompt_i \o Str_ContentLabel \o c)]]
    /\ UNCHANGED <<GEMINI_API_KEY, requestVars, workVars, callVars, resultVars, mockFirst, mockLast,
                   extractLast, upload>>

\* lines 111-141: the media fetch of invocation i is over
InvocationFetched(i, m) ==
    /\ invocations[i].pc = "fetch(content)"
    /\ LET inv == [invocations[i] EXCEPT !.media = <<m>>]
       IN  invocations' = [invocations EXCEPT ![i] =
               IF ~m.ok
               THEN respond(inv, 200, createMockAnalysis(inv.content, inv.contentType))
               ELSE [inv EXCEPT !.pc = "fetch(apiUrl)",
                                !.geminiPayload =
                                    imagePayload(buildPrompt(inv.contentType), Str_imageJpeg,
                                                 btoa(fromCharCode(m.body)))]]
    /\ UNCHANGED <<GEMINI_API_KEY, requestVars, workVars, callVars, resultVars, mockFirst, mockLast,
                   extractLast, upload>>

\* Mutant: content and contentType kept at module level, where the invocation that
\* came last has overwritten them.
InvocationAnswered_SharedRequest(i, a) ==
    /\ invocations[i].pc = "fetch(apiUrl)"
    /\ \E j \in Invocations :
          /\ invocations[j].pc # "idle"
          /\ LET inv == [invocations[i] EXCEPT !.answer = <<a>>]
                 shared == invocations[j]
             IN  invocations' = [invocations EXCEPT ![i] =
                     IF ~a.ok
                     THEN respond(inv, 200, createMockAnalysis(shared.content, shared.contentType))
                     ELSE respond(inv, 200, analysisResult(a.text, shared.contentType))]
    /\ UNCHANGED <<GEMINI_API_KEY, requestVars, workVars, callVars, resultVars, mockFirst, mockLast,
                   extractLast, upload>>

\* lines 210-285: the completion call of invocation i is over
InvocationAnswered(i, a) ==
    /\ invocations[i].pc = "fetch(apiUrl)"
    /\ LET inv == [invocations[i] EXCEPT !.answer = <<a>>]
       IN  invocations' = [invocations EXCEPT ![i] =
               IF ~a.ok
               THEN respond(inv, 200, createMockAnalysis(inv.content, inv.contentType))
               ELSE respond(inv, 200, analysisResult(a.text, inv.contentType))]
    /\ UNCHANGED <<GEMINI_API_KEY, requestVars, workVars, callVars, resultVars, mockFirst, mockLast,
                   extractLast, upload>>

NextConcurrent ==
    \E i \in Invocations :
        \/ \E req \in ConcurrentRequests : InvocationArrives(i, req)
        \/ InvocationParsed(i)
        \/ \E m \in ConcurrentMedia : InvocationFetched(i, m)
        \/ \E a \in ConcurrentAnswers : InvocationAnswered(i, a)

SpecConcurrent == Init /\ [][NextConcurrent]_vars

(***************************************************************************)
(* The Upload page (src/pages/dashboard/Upload.tsx): its form, and the     *)
(* submissions it makes to analyze-content and to the two tables           *)
(***************************************************************************)
\* What the user may type or pick, and what the calls may answer.
UploadUrls == {<<>>, In_httpUrl}

UploadCaptions == {<<>>, In_hello}

\* "a.txt" of type text/plain holding "hello"; "b.png" of type image/png
UploadFiles ==
    {[name |-> <<97, 46, 116, 120, 116>>, type |-> <<116, 101, 120, 116, 47, 112, 108, 97, 105, 110>>,
      text |-> In_hello],
     [name |-> <<98, 46, 112, 110, 103>>, type |-> <<105, 109, 97, 103, 101, 47, 112, 110, 103>>,
      text |-> <<>>]}

UploadTypes == {Str_video, Str_image, Str_text}

\* The data analyze-content may answer with for a content type: the verdict
\* extracted from a safe or from an unsafe answer of the provider.
FunctionVerdicts(t) == {analysisResult(Tok_safe, t), analysisResult(Ans_thisContentIsUnsafe, t)}

\* The step taken changes the page alone.
Page(next) ==
    /\ upload' = next
    /\ UNCHANGED <<GEMINI_API_KEY, requestVars, workVars, callVars, resultVars, mockFirst, mockLast,
                   extractLast, invocations>>

\* The form is touched: the records of the latest analysis and table call are dropped.
touched(u) == [u EXCEPT !.latest = NoAnalysis, !.lastCall = NoCall]

\* isUploading || isAnalyzing: what disables the inputs
busy(u) == u.isUploading \/ u.isAnalyzing

\* if (result) { setResult(null); setAnalysisDetails(null); }
resetIfResult(u) ==
    IF u.result # "null" THEN [u EXCEPT !.result = "null", !.analysisDetails = JsNull] ELSE u

\* lines 308-316: the URL is edited
UrlChange(value) ==
    /\ ~(upload.file # JsNull \/ busy(upload))
    /\ value # upload.url
    /\ Page(touched(resetIfResult([upload EXCEPT !.url = value])))

\* lines 44-62: a file is picked
handleFileChange(selectedFile) ==
    /\ ~(upload.url # <<>> \/ busy(upload))
    /\ Page(touched([upload EXCEPT
                !.file = selectedFile,
                !.contentType =
                    IF startsWith(selectedFile.type, <<105, 109, 97, 103, 101, 47>>) THEN Str_image
                    ELSE IF startsWith(selectedFile.type, <<118, 105, 100, 101, 111, 47>>)
                    THEN Str_video
                    ELSE IF \/ selectedFile.type = <<116, 101, 120, 116, 47, 112, 108, 97, 105, 110>>
                            \/ selectedFile.type = <<97, 112, 112, 108, 105, 99, 97, 116, 105, 111, 110, 47, 106,
                                115, 111, 110>>
                    THEN Str_text
                    ELSE @,
                !.result = "null",
                !.analysisDetails = JsNull]))

\* lines 341-346: Remove File
RemoveFile ==
    /\ upload.file # JsNull /\ ~busy(upload)
    /\ Page(touched([upload EXCEPT !.file = JsNull, !.result = "null",
                                   !.analysisDetails = JsNull]))

\* lines 374-381: the caption is edited
CaptionChange(value) ==
    /\ ~busy(upload)
    /\ value # upload.caption
    /\ Page(touched(resetIfResult([upload EXCEPT !.caption = value])))

\* lines 400-408: another content type is chosen
ContentTypeChange(value) ==
    /\ ~busy(upload)
    /\ value # upload.contentType
    /\ Page(touched(resetIfResult([upload EXCEPT !.contentType = value])))

\* lines 274-286
handleReset ==
    /\ ~busy(upload)
    /\ Page(touched([upload EXCEPT !.url = <<>>, !.caption = <<>>, !.contentType = Str_video,
                                   !.file = JsNull, !.result = "null",
                                   !.analysisDetails = JsNull,
                                   !.lastAnalyzedContent = Null, !.obtained = JsNull]))

\* lines 104-121 and 437: the form is submitted by a logged-in user (without a user
\* lines 112-115 return and nothing changes); the simulated upload is awaited
handleSubmit ==
    /\ ~((upload.url = <<>> /\ upload.file = JsNull) \/ busy(upload) \/ upload.result # "null")
    /\ Len(upload.pending) < MaxPending
    /\ Page(touched([upload EXCEPT !.isUploading = TRUE, !.pc = "upload",
                                   !.contentToAnalyze = Null]))

\* text.substring(0, 5000)
substring5000(text) == SubSeq(text, 1, IF Len(text) < 5000 THEN Len(text) ELSE 5000)

\* lines 127-140: the content to analyze; textRead is whether file.text() resolved
contentToAnalyze(u, textRead) ==
    IF u.caption # <<>> THEN u.caption
    ELSE IF u.file # JsNull /\ u.contentType = Str_text /\ textRead
    THEN substring5000(u.file.text)
    ELSE IF u.url # <<>> THEN u.url
    ELSE IF u.file # JsNull /\ u.file.name # <<>> THEN u.file.name
    ELSE <<83, 97, 109, 112, 108, 101, 32, 99, 111, 110, 116, 101, 110, 116, 32, 102, 111, 114,
         32, 97, 110, 97, 108, 121, 115, 105, 115>>

\* Mutant: the default analysis of the catch clause saying safe.
errorAnalysis_FailOpen ==
    [safe |-> TRUE,
     reason |-> <<85, 110, 97, 98, 108, 101, 32, 116, 111, 32, 97, 110, 97, 108, 121, 122, 101,
               32, 99, 111, 110, 116, 101, 110, 116, 32, 45, 32, 115, 101, 114, 118, 105, 99,
               101, 32, 117, 110, 97, 118, 97, 105, 108, 97, 98, 108, 101>>,
     category |-> <<115, 97, 102, 101>>,
     confidence |-> 50,
     detailedAnalysis |-> <<84, 104, 101, 32, 99, 111, 110, 116, 101, 110, 116, 32, 97, 110, 97,
                         108, 121, 115, 105, 115, 32, 115, 101, 114, 118, 105, 99, 101, 32,
                         105, 115, 32, 99, 117, 114, 114, 101, 110, 116, 108, 121, 32, 117,
                         110, 97, 118, 97, 105, 108, 97, 98, 108, 101, 46, 32, 80, 108, 101,
                         97, 115, 101, 32, 116, 114, 121, 32, 97, 103, 97, 105, 110, 32, 108,
                         97, 116, 101, 114, 46>>]

\* lines 94-100: the default analysis of analyzeContent's catch clause
errorAnalysis ==
    [safe |-> FALSE,
     reason |-> <<85, 110, 97, 98, 108, 101, 32, 116, 111, 32, 97, 110, 97, 108, 121, 122, 101,
               32, 99, 111, 110, 116, 101, 110, 116, 32, 45, 32, 115, 101, 114, 118, 105, 99,
               101, 32, 117, 110, 97, 118, 97, 105, 108, 97, 98, 108, 101>>,
     category |-> <<101, 114, 114, 111, 114>>,
     confidence |-> 50,
     detailedAnalysis |-> <<84, 104, 101, 32, 99, 111, 110, 116, 101, 110, 116, 32, 97, 110, 97,
                         108, 121, 115, 105, 115, 32, 115, 101, 114, 118, 105, 99, 101, 32,
                         105, 115, 32, 99, 117, 114, 114, 101, 110, 116, 108, 121, 32, 117,
                         110, 97, 118, 97, 105, 108, 97, 98, 108, 101, 46, 32, 80, 108, 101,
                         97, 115, 101, 32, 116, 114, 121, 32, 97, 103, 97, 105, 110, 32, 108,
                         97, 116, 101, 114, 46>>]

\* lines 146-152 and 266-271: what handleSubmit does with the value analyzeContent
\* returned. A null value throws at analysisResult.safe, after setAnalysisDetails;
\* otherwise the submission goes on to the insert into content_reports.
analysisReturned(u, analysis, how) ==
    LET seen == [u EXCEPT !.pc = "idle", !.isUploading = FALSE, !.isAnalyzing = FALSE,
                          !.analysisDetails = analysis,
                          !.latest = [outcome |-> how, content |-> u.contentToAnalyze,
                                      contentType |-> u.contentType, returned |-> analysis]]
    IN  IF analysis = JsNull THEN seen
        ELSE LET finalResult == IF analysis.safe = TRUE THEN "safe" ELSE "flagged"
             IN  [seen EXCEPT !.result = finalResult,
                              !.pending = Append(@, [finalResult |-> finalResult,
                                                     safe |-> analysis.safe,
                                                     stage |-> "content_reports",
                                                     reportSaved |-> FALSE])]

\* lines 122-143 and 65-78: the upload is over; the content to analyze is worked out
\* and analyzeContent either returns analysisDetails at once or invokes the function
Uploaded(textRead) ==
    /\ upload.pc = "upload"
    /\ LET u == [upload EXCEPT !.isUploading = FALSE, !.isAnalyzing = TRUE,
                               !.contentToAnalyze = contentToAnalyze(upload, textRead)]
       IN  IF u.contentToAnalyze = u.lastAnalyzedContent
           THEN Page(analysisReturned(u, u.analysisDetails, "cached"))
           ELSE Page([u EXCEPT !.pc = "invoke"])

\* lines 73-90: the function answered with data
InvokeAnswers ==
    /\ upload.pc = "invoke"
    /\ upload.contentToAnalyze # <<>>
    /\ \E data \in FunctionVerdicts(upload.contentType) :
          Page(analysisReturned(
                   [upload EXCEPT !.lastAnalyzedContent = upload.contentToAnalyze,
                                  !.obtained = [content |-> upload.contentToAnalyze,
                                                contentType |-> upload.contentType,
                                                data |-> data]],
                   data, "data"))

\* lines 80-83 and 91-101: the function answered with an error, or invoke threw
InvokeFails(how) ==
    /\ upload.pc = "invoke"
    /\ Page(analysisReturned(upload, errorAnalysis, how))

\* the pending submissions without the k-th
without(pending, k) == SubSeq(pending, 1, k - 1) \o SubSeq(pending, k + 1, Len(pending))

\* Mutant: the upsert made for every report saved, whatever its status.
ReportInserted_AlwaysFlag(k, reportError) ==
    /\ k \in 1..Len(upload.pending)
    /\ upload.pending[k].stage = "content_reports"
    /\ LET call == [table |-> "content_reports", ok |-> ~reportError,
                    finalResult |-> upload.pending[k].finalResult]
       IN  IF reportError
           THEN Page([upload EXCEPT !.pending = without(@, k), !.lastCall = call])
           ELSE Page([upload EXCEPT !.pending[k].stage = "flagged_accounts",
                                    !.pending[k].reportSaved = TRUE, !.lastCall = call])

\* lines 178-216 and 256-263: the insert into content_reports of the k-th pending
\* submission is over
ReportInserted(k, reportError) ==
    /\ k \in 1..Len(upload.pending)
    /\ upload.pending[k].stage = "content_reports"
    /\ LET call == [table |-> "content_reports", ok |-> ~reportError,
                    finalResult |-> upload.pending[k].finalResult]
       IN  IF reportError
           THEN Page([upload EXCEPT !.pending = without(@, k), !.lastCall = call])
           ELSE IF upload.pending[k].finalResult = "flagged"
           THEN Page([upload EXCEPT !.pending[k].stage = "flagged_accounts",
                                    !.pending[k].reportSaved = TRUE, !.lastCall = call])
           ELSE Page([upload EXCEPT !.pending = without(@, k), !.lastCall = call])

\* lines 219-254: the upsert into flagged_accounts of the k-th pending submission is
\* over; registered is whether window.addFlaggedAccount is a function
FlaggedUpserted(k, flaggedError, registered) ==
    /\ k \in 1..Len(upload.pending)
    /\ upload.pending[k].stage = "flagged_accounts"
    /\ Page([upload EXCEPT
                !.pending = without(@, k),
                !.lastCall = [table |-> "flagged_accounts", ok |-> ~flaggedError,
                              finalResult |-> upload.pending[k].finalResult,
                              reportSaved |-> upload.pending[k].reportSaved,
                              addFlaggedAccount |-> ~flaggedError /\ registered]])

NextUpload ==
    \/ \E value \in UploadUrls : UrlChange(value)
    \/ \E selectedFile \in UploadFiles : handleFileChange(selectedFile)
    \/ RemoveFile
    \/ \E value \in UploadCaptions : CaptionChange(value)
    \/ \E value \in UploadTypes : ContentTypeChange(value)
    \/ handleReset
    \/ handleSubmit
    \/ \E textRead \in BOOLEAN : Uploaded(textRead)
    \/ InvokeAnswers
    \/ \E how \in {"error", "throws"} : InvokeFails(how)
    \/ \E k \in 1..MaxPending, reportError \in BOOLEAN : ReportInserted(k, reportError)
    \/ \E k \in 1..MaxPending, flaggedError \in BOOLEAN, registered \in BOOLEAN :
          FlaggedUpserted(k, flaggedError, registered)

\* The function the page invokes has its key configured.
InitUpload == Init /\ ~apiKeyMissing(GEMINI_API_KEY)

SpecUpload == InitUpload /\ [][NextUpload]_vars

(***************************************************************************)
(* The fallback synthesizer alone: createMockAnalysis applied to any       *)
(* content and content type, any number of times                           *)
(***************************************************************************)
\* The contents of the invocations interleaved with those of the content under test.
OtherContents == {In_hello, In_text3, In_polygenelubricants}

\* One invocation. The first one fixes the content under test; the later ones are
\* of that content, with any content type, or of one of OtherContents.
InvokeMock(c, t) ==
    /\ IF mockFirst = <<>> THEN TRUE ELSE c \in {mockFirst[1].content} \cup OtherContents
    /\ mockLast' = <<[content |-> c, contentType |-> t, result |-> createMockAnalysis(c, t)]>>
    /\ mockFirst' = IF mockFirst = <<>> THEN mockLast' ELSE mockFirst
    /\ UNCHANGED <<GEMINI_API_KEY, requestVars, workVars, callVars, resultVars, extractLast,
                   invocations, upload>>

NextFallback == \E c \in Contents, t \in ContentTypes : InvokeMock(c, t)

InitFallback == Init /\ GEMINI_API_KEY = <<>>

SpecFallback == InitFallback /\ [][NextFallback]_vars

(***************************************************************************)
(* The verdict extractor alone: lines 238-274 applied to a provider answer *)
(***************************************************************************)
\* The extraction of the verdict from one non-empty answer of the provider.
InvokeExtract(text, t) ==
    /\ extractLast' = <<[aiResponse |-> text, contentType |-> t, result |-> analysisResult(text, t)]>>
    /\ UNCHANGED <<GEMINI_API_KEY, requestVars, workVars, callVars, resultVars, mockFirst, mockLast,
                   invocations, upload>>

\* The provider answers in verdict wording, for a request of any content type.
AnswerWithVerdict ==
    /\ extractLast = <<>>
    /\ \E text \in VerdictAnswers, t \in ContentTypes : InvokeExtract(text, t)

\* The provider answers with section headers and bodies.
AnswerWithSections ==
    /\ extractLast = <<>>
    /\ \E text \in SectionAnswers : InvokeExtract(text, Str_text)

NextExtract == AnswerWithVerdict \/ AnswerWithSections

InitExtract == Init /\ ~apiKeyMissing(GEMINI_API_KEY)

SpecExtract == InitExtract /\ [][NextExtract]_vars

(***************************************************************************)
(* Properties                                                              *)
(***************************************************************************)
\* The fields of a ClassificationVerdict (rawResponse is the field aiResponse).
VerdictFields == {"safe", "reason", "category", "confidence", "aiResponse", "detailedAnalysis"}

IsString(x) == x # Undefined /\ \A i \in 1..Len(x) : x[i] \in 0..65535

IsVerdict(body) ==
    /\ DOMAIN body = VerdictFields
    /\ body.safe \in BOOLEAN
    /\ body.confidence \in Int
    /\ IsString(body.reason)
    /\ IsString(body.category)
    /\ IsString(body.aiResponse)
    /\ IsString(body.detailedAnalysis)

\* The request carried a body with a non-empty content.
ValidRequest == received = "body" /\ ~Falsy(content)

\* The handler returned for the current request.
Done == pc = "done"

\* C1: for a request with a non-empty content, whatever the configuration check,
\* the media fetch and the completion call do, the handler returns exactly one
\* response (none before it is done, one when it is), that response is a complete
\* verdict with status 200, and no exception leaves the handler.
C1_TotalVerdict ==
    /\ ~escaped
    /\ ~Done => responses = <<>>
    /\ (Done /\ ValidRequest) =>
          /\ Len(responses) = 1
          /\ responses[1].status = 200
          /\ IsVerdict(responses[1].body)

C1_Witness ==
    /\ Done /\ ValidRequest
    /\ fault = "geminiResponse.json"
    /\ Len(responses) = 1
    /\ IsVerdict(responses[1].body)

\* C2: every verdict the handler returns, extracted or synthesized, has a
\* confidence within [0.5, 0.99] (50..99 hundredths).
C2_ConfidenceRange ==
    \A i \in 1..Len(responses) :
        responses[i].status = 200 => responses[i].body.confidence \in 50..99

C2_Witness ==
    /\ Done /\ source = "extract"
    /\ ~responses[1].body.safe
    /\ responses[1].body.confidence = 55

\* the credential is unset, empty or made of white space only
KeyUnusable == \A i \in 1..Len(GEMINI_API_KEY) : GEMINI_API_KEY[i] \in WhiteSpace

\* C3: with the credential unset, empty or blank, no media fetch and no completion
\* call is made, no prompt and no payload is built, and a request with a non-empty
\* content is answered with the fallback synthesizer's verdict for it.
C3_NotConfiguredNoNetwork ==
    KeyUnusable =>
        /\ fetchCalls = 0 /\ completionCalls = 0
        /\ prompt = Undefined /\ geminiPayload = NoPayload
        /\ pc \in {"start", "validate", "checkKey", "done"}
        /\ (Done /\ ValidRequest) =>
              /\ source = "fallback" /\ mockCalls = 1
              /\ responses = <<[status |-> 200, body |-> createMockAnalysis(content, contentType)]>>

C3_Witness ==
    /\ GEMINI_API_KEY = <<32, 9, 32>>
    /\ Done /\ source = "fallback"
    /\ contentType = Str_image /\ content = In_httpUrl

\* The five kinds of failure, by the throw site or failed check recorded in fault.
FailureKind(f) ==
    CASE f = "GEMINI_API_KEY" -> "ProviderNotConfigured"
      [] f \in {"fetch(content)", "arrayBuffer", "fetch(apiUrl)"} -> "NetworkFailure"
      [] f \in {"imageResponse.ok", "!geminiResponse.ok", "geminiResponse.text"} -> "HttpError"
      [] f \in {"base64Image", "fromCharCode"} -> "MalformedMedia"
      [] f \in {"geminiResponse.json", "geminiData.candidates", "aiResponse.substring",
                "!geminiData.candidates", "!text"} -> "ProviderMalformedResponse"
      [] OTHER -> "none"

\* C4: each of the five kinds of failure ends in one response of status 200 whose
\* body is the fallback synthesizer's verdict; never an error response, an escaped
\* exception or an extracted verdict.
C4_FailuresBecomeFallback ==
    (Done /\ FailureKind(fault) # "none") =>
        /\ ~escaped
        /\ source = "fallback"
        /\ responses = <<[status |-> 200, body |-> createMockAnalysis(content, contentType)]>>

C4_Witness ==
    /\ Done /\ fault = "!text"
    /\ FailureKind(fault) = "ProviderMalformedResponse"
    /\ source = "fallback" /\ responses[1].status = 200

\* C5: two invocations of the fallback synthesizer for the same content agree on
\* safe and confidence whatever their content types, and agree on every field when
\* the content types are the same too, whatever was invoked in between.
C5_FallbackDeterministic ==
    (mockFirst # <<>> /\ mockLast # <<>> /\ mockFirst[1].content = mockLast[1].content) =>
        /\ mockFirst[1].result.safe = mockLast[1].result.safe
        /\ mockFirst[1].result.confidence = mockLast[1].result.confidence
        /\ mockFirst[1].contentType = mockLast[1].contentType =>
              mockFirst[1].result = mockLast[1].result

C5_Witness ==
    /\ mockFirst # <<>> /\ mockLast # <<>>
    /\ mockFirst[1].content = In_dataUrlJpeg /\ mockLast[1].content = In_dataUrlJpeg
    /\ mockFirst[1].contentType = Str_image /\ mockLast[1].contentType = Str_video
    /\ mockFirst[1].result.detailedAnalysis # mockLast[1].result.detailedAnalysis

\* h := 31*h + charCode, truncated to 32 bits
times31Plus(h, code) ==
    LET lo == h.lo * 31 + code
        hi == h.hi * 31 + (lo \div Half)
    IN  [hi |-> hi % Half, lo |-> lo % Half]

\* H: the fold of times31Plus over the characters, from the left, starting from 0
RECURSIVE H(_, _)
H(chars, h) ==
    IF chars = <<>> THEN h
    ELSE LET next == times31Plus(h, charCodeAt0(Head(chars)))
         IN  IF next.lo >= 0 THEN H(Tail(chars), next) ELSE next

\* |h| mod 5 for h read as a signed 32-bit integer: a negative h is u - 2^32 for
\* the unsigned u, and 2^32 mod 5 = 2^16 mod 5 = 1
AbsMod5(h) ==
    LET u == (h.hi + h.lo) % 5
    IN  IF h.hi >= 32768 THEN (1 - u) % 5 ELSE u

\* C6: the fallback verdict is unsafe exactly when |H(content)| mod 5 = 0.
C6_UnsafeIffHashMod5 ==
    mockLast # <<>> =>
        (~mockLast[1].result.safe <=> AbsMod5(H(ArrayFrom(mockLast[1].content), Int32Zero)) = 0)

\* an unsafe verdict for a content whose hash wrapped around to a negative number
C6_Witness ==
    /\ mockLast # <<>>
    /\ mockLast[1].content = In_text3
    /\ H(ArrayFrom(In_text3), Int32Zero).hi >= 32768
    /\ ~mockLast[1].result.safe

\* C7: a safe fallback verdict has category "safe" and a confidence within
\* [0.85, 0.99]; an unsafe one has a confidence within [0.65, 0.84].
C7_FallbackConfidenceBands ==
    mockLast # <<>> =>
        LET result == mockLast[1].result
        IN  IF result.safe
            THEN result.category = <<115, 97, 102, 101>> /\ result.confidence \in 85..99
            ELSE result.confidence \in 65..84

C7_Witness ==
    /\ mockLast # <<>>
    /\ mockLast[1].result.safe
    /\ mockLast[1].result.confidence = 99

\* "visual_policy_violation", "video_policy_violation", "text_policy_violation"
ExpectedUnsafeCategory(type) ==
    IF type = <<105, 109, 97, 103, 101>>
    THEN <<118, 105, 115, 117, 97, 108>> \o Str_policyViolationSuffix
    ELSE IF type = <<118, 105, 100, 101, 111>>
    THEN <<118, 105, 100, 101, 111>> \o Str_policyViolationSuffix
    ELSE <<116, 101, 120, 116>> \o Str_policyViolationSuffix

\* the first word of the rationale: "Image", "Video" or "Text"
ExpectedRationaleSubject(type) ==
    IF type = <<105, 109, 97, 103, 101>> THEN <<73, 109, 97, 103, 101>>
    ELSE IF type = <<118, 105, 100, 101, 111>> THEN <<86, 105, 100, 101, 111>>
    ELSE <<84, 101, 120, 116>>

\* C8: the category of an unsafe fallback verdict follows from the content type
\* alone: image, video, and text for any other value; the rationale is that of the
\* same kind of content.
C8_UnsafeCategoryByType ==
    (mockLast # <<>> /\ ~mockLast[1].result.safe) =>
        /\ mockLast[1].result.category = ExpectedUnsafeCategory(mockLast[1].contentType)
        /\ startsWith(mockLast[1].result.reason, ExpectedRationaleSubject(mockLast[1].contentType))

C8_Witness ==
    /\ mockLast # <<>>
    /\ ~mockLast[1].result.safe
    /\ mockLast[1].contentType = Str_audio
    /\ mockLast[1].result.category = Str_textPolicyViolation

\* the text holds the fallback marker
HasFallbackMarker(text) ==
    /\ text # Undefined
    /\ startsWith(text, Str_MockPrefix)
    /\ Len(text) >= Len(Str_MockSuffix)
    /\ SubSeq(text, Len(text) - Len(Str_MockSuffix) + 1, Len(text)) = Str_MockSuffix

\* C9: every verdict built on a fallback path carries the fallback marker in its
\* raw response, and a verdict carrying the marker is never an extracted one.
C9_MarkerMeansFallback ==
    (Done /\ Len(responses) = 1 /\ responses[1].status = 200) =>
        /\ source = "fallback" => HasFallbackMarker(responses[1].body.aiResponse)
        /\ HasFallbackMarker(responses[1].body.aiResponse) => source # "extract"

\* the character folded to lower case
Fold(c) == IF c >= 65 /\ c <= 90 THEN c + 32 ELSE c

\* the case-folded text contains the word
ContainsFolded(text, word) ==
    \E i \in 1..Len(text) :
        /\ i + Len(word) - 1 <= Len(text)
        /\ \A j \in 1..Len(word) : Fold(text[i + j - 1]) = word[j]

\* "unsafe", "violate", "inappropriate"
UnsafeWords ==
    {<<117, 110, 115, 97, 102, 101>>, <<118, 105, 111, 108, 97, 116, 101>>,
     <<105, 110, 97, 112, 112, 114, 111, 112, 114, 105, 97, 116, 101>>}

\* C10: the extracted verdict is safe exactly when the case-folded answer holds
\* none of "unsafe", "violate", "inappropriate"; a safe one has the category "safe"
\* and the canned reason, whatever the answer says after "because" or "issue".
C10_SafeIffNoUnsafeWord ==
    (Done /\ source = "extract") =>
        LET body == responses[1].body
        IN  /\ body.safe <=> \A word \in UnsafeWords : ~ContainsFolded(aiResponse, word)
            /\ body.safe => /\ body.category = <<115, 97, 102, 101>>
                            /\ body.reason = Str_ContentAppearsSafe

C10_Witness ==
    /\ Done /\ source = "extract"
    /\ aiResponse = Tok_safe \o Tok_because
    /\ responses[1].body.safe
    /\ responses[1].body.reason = Str_ContentAppearsSafe

\* The extractor alone has been applied to an answer.
Extracted == extractLast # <<>>

ViolenceGroup ==
    {<<118, 105, 111, 108, 101, 110, 99, 101>>, <<103, 114, 97, 112, 104, 105, 99>>, <<104, 97, 114, 109, 102, 117, 108>>}

\* "sexual", "explicit", "adult"
AdultGroup ==
    {<<115, 101, 120, 117, 97, 108>>, <<101, 120, 112, 108, 105, 99, 105, 116>>, <<97, 100, 117, 108, 116>>}

\* "hate", "discriminat", "offensive"
HateGroup ==
    {<<104, 97, 116, 101>>, <<100, 105, 115, 99, 114, 105, 109, 105, 110, 97, 116>>,
     <<111, 102, 102, 101, 110, 115, 105, 118, 101>>}

\* the case-folded text contains a word of the group
Mentions(text, group) == \E word \in group : ContainsFolded(text, word)

\* C12: the category of an unsafe verdict is the content type followed by
\* "_policy_violation" if the answer mentions violence/graphic/harmful, else by
\* "_adult_content" if it mentions sexual/explicit/adult, else by "_hate_speech" if
\* it mentions hate/discriminat/offensive, else by "_policy_violation".
C12_CategoryByPriority ==
    (Extracted /\ ~extractLast[1].result.safe) =>
        LET text == extractLast[1].aiResponse
        IN  extractLast[1].result.category =
                extractLast[1].contentType \o
                    (IF Mentions(text, ViolenceGroup)
                     THEN <<95, 112, 111, 108, 105, 99, 121, 95, 118, 105, 111, 108, 97, 116, 105, 111, 110>>
                     ELSE IF Mentions(text, AdultGroup)
                     THEN <<95, 97, 100, 117, 108, 116, 95, 99, 111, 110, 116, 101, 110, 116>>
                     ELSE IF Mentions(text, HateGroup)
                     THEN <<95, 104, 97, 116, 101, 95, 115, 112, 101, 101, 99, 104>>
                     ELSE <<95, 112, 111, 108, 105, 99, 121, 95, 118, 105, 111, 108, 97, 116, 105, 111, 110>>)

\* an answer that mentions the hate group first and the adult group after it
C12_Witness ==
    /\ Extracted
    /\ extractLast[1].aiResponse = Ans_thisContentIsUnsafe \o Ans_hate \o Tok_adult
    /\ extractLast[1].contentType = Str_image
    /\ extractLast[1].result.category = <<105, 109, 97, 103, 101, 95, 97, 100, 117, 108, 116, 95, 99, 111, 110, 116, 101, 110, 116>>

\* "definitely", "certainly", "clearly"
CertainGroup ==
    {<<100, 101, 102, 105, 110, 105, 116, 101, 108, 121>>, <<99, 101, 114, 116, 97, 105, 110, 108, 121>>,
     <<99, 108, 101, 97, 114, 108, 121>>}

\* "likely", "probably"
LikelyGroup ==
    {<<108, 105, 107, 101, 108, 121>>, <<112, 114, 111, 98, 97, 98, 108, 121>>}

\* "possibly", "might", "could be"
PossibleGroup ==
    {<<112, 111, 115, 115, 105, 98, 108, 121>>, <<109, 105, 103, 104, 116>>, <<99, 111, 117, 108, 100, 32, 98, 101>>}

\* "uncertain", "unclear"
UncertainGroup ==
    {<<117, 110, 99, 101, 114, 116, 97, 105, 110>>, <<117, 110, 99, 108, 101, 97, 114>>}

\* the adjustment of the first certainty group the answer mentions, in hundredths
FirstAdjustment(text) ==
    IF Mentions(text, CertainGroup) THEN 15
    ELSE IF Mentions(text, LikelyGroup) THEN 5
    ELSE IF Mentions(text, PossibleGroup) THEN -10
    ELSE IF Mentions(text, UncertainGroup) THEN -20
    ELSE 0

Clamp(x, low, high) == IF x < low THEN low ELSE IF x > high THEN high ELSE x

\* C13: the extracted confidence is clamp(base + adjustment, 0.5, 0.99), the base
\* being 0.8 for a safe verdict and 0.75 for an unsafe one and the adjustment that
\* of the first certainty group mentioned, and no other (in hundredths).
C13_ConfidenceFormula ==
    Extracted =>
        LET text == extractLast[1].aiResponse
            result == extractLast[1].result
        IN  /\ result.confidence =
                  Clamp((IF result.safe THEN 80 ELSE 75) + FirstAdjustment(text), 50, 99)
            /\ result.confidence \in 50..99

\* an unsafe answer with both "definitely" and "uncertain": 0.75 + 0.15
C13_Witness ==
    /\ Extracted
    /\ extractLast[1].aiResponse = Ans_thisContentIsUnsafe \o Tok_uncertain \o Tok_definitely
    /\ ~extractLast[1].result.safe
    /\ extractLast[1].result.confidence = 90

\* "Overall Assessment", "Specific Issues", "Reasoning", "Recommendations"
SectionNames ==
    <<<<79, 118, 101, 114, 97, 108, 108, 32, 65, 115, 115, 101, 115, 115, 109, 101, 110, 116>>,
      <<83, 112, 101, 99, 105, 102, 105, 99, 32, 73, 115, 115, 117, 101, 115>>,
      <<82, 101, 97, 115, 111, 110, 105, 110, 103>>,
      <<82, 101, 99, 111, 109, 109, 101, 110, 100, 97, 116, 105, 111, 110, 115>>>>

\* the name stands in the text at place i, letter case ignored
NameAt(text, i, name) ==
    /\ i + Len(name) - 1 <= Len(text)
    /\ \A j \in 1..Len(name) : Fold(text[i + j - 1]) = Fold(name[j])

HeaderPlaces(text, name) == {i \in 1..Len(text) : NameAt(text, i, name)}

HeaderPresent(text, name) == HeaderPlaces(text, name) # {}

\* what follows the first header of that name in the answer, up to the next
\* header of any name or to the end of the answer
RawBody(text, name) ==
    LET start == Min(HeaderPlaces(text, name)) + Len(name)
        nexts == {i \in start..Len(text) : \E k \in 1..4 : NameAt(text, i, SectionNames[k])}
    IN  SubSeq(text, start, (IF nexts = {} THEN Len(text) + 1 ELSE Min(nexts)) - 1)

\* the header is there and something other than colons and white space follows it
HasBody(text, name) ==
    /\ HeaderPresent(text, name)
    /\ \E i \in 1..Len(RawBody(text, name)) : RawBody(text, name)[i] \notin WhiteSpace \cup {58}

\* "**" name "**: "
Label(name) == <<42, 42>> \o name \o <<42, 42, 58, 32>>

\* "No " name in lower case " provided."
Placeholder(name) ==
    <<78, 111, 32>> \o [i \in 1..Len(name) |-> Fold(name[i])]
        \o <<32, 112, 114, 111, 118, 105, 100, 101, 100, 46>>

\* the first place of `part` in `text`, or 0
PlaceOf(text, part) ==
    LET places == {i \in 1..(Len(text) - Len(part) + 1) : matchesAt(text, i, part)}
    IN  IF places = {} THEN 0 ELSE Min(places)

\* the four labels stand in the text, in the order of SectionNames
LabelsInOrder(text) ==
    /\ \A k \in 1..4 : PlaceOf(text, Label(SectionNames[k])) > 0
    /\ \A k \in 1..3 :
          PlaceOf(text, Label(SectionNames[k])) < PlaceOf(text, Label(SectionNames[k + 1]))

\* C14: when each of the four headers stands in the answer with a body after
\* it, detailedAnalysis holds the four labels in order and none of the four "No
\* ... provided." placeholders.
C14_AllSectionsExtracted ==
    (Extracted /\ \A k \in 1..4 : HasBody(extractLast[1].aiResponse, SectionNames[k])) =>
        /\ LabelsInOrder(extractLast[1].result.detailedAnalysis)
        /\ \A k \in 1..4 :
              PlaceOf(extractLast[1].result.detailedAnalysis,
                      Label(SectionNames[k]) \o Placeholder(SectionNames[k])) = 0

\* .replace(/^\d+\.\s*/gm, '').replace(/\n{3,}/g, '\n\n') of lines 330-332
Cleaned(text) == normalizeSpacing(removeNumbering(text, 1), 1)

\* C15: when none of the four headers stands in the answer, detailedAnalysis is
\* the cleaned answer and holds no section label.
C15_NoHeadersGivesCleanedText ==
    (Extracted /\ \A k \in 1..4 : ~HeaderPresent(extractLast[1].aiResponse, SectionNames[k])) =>
        /\ extractLast[1].result.detailedAnalysis = Cleaned(extractLast[1].aiResponse)
        /\ \A k \in 1..4 :
              PlaceOf(extractLast[1].result.detailedAnalysis, Label(SectionNames[k])) = 0

\* the section of that name as the claim renders it: the placeholder when the
\* header is missing or the extracted body is blank, the extracted body otherwise
Rendered(text, name) ==
    Label(name) \o
        (IF ~HeaderPresent(text, name) THEN Placeholder(name)
         ELSE IF trim(sectionMatch(text, name)) = <<>> THEN Placeholder(name)
         ELSE trim(sectionMatch(text, name)))
        \o <<10, 10>>

StepOf(position) ==
    CASE position \in {"start", "validate", "checkKey"} -> 0
      [] position = "buildPrompt" -> 1
      [] position \in {"buildPayload", "fetchImage", "callGemini"} -> 2
      [] position = "extract" -> 3
      [] position = "done" -> 4

\* Extraction and fallback in a state: extraction only with the completion call
\* made once, a non-empty text and no failure; the fallback synthesizer at most
\* once and only with a failure recorded; never two responses.
ExtractOrFallback ==
    /\ (pc = "extract" \/ (Done /\ source = "extract")) =>
          /\ completionCalls = 1
          /\ ~Falsy(aiResponse)
          /\ mockCalls = 0 /\ fault = "none"
    /\ mockCalls \in 0..1
    /\ (mockCalls = 1) => (Done /\ source = "fallback" /\ FailureKind(fault) # "none")
    /\ (source = "fallback") => (mockCalls = 1)
    /\ Len(responses) <= 1

\* A step of the handler goes forward in the order of the steps; extraction is
\* entered from the completion call only, and Start from Done only.
StepsForward ==
    /\ (pc' # "start") => (StepOf(pc') >= StepOf(pc))
    /\ (pc' = "extract" /\ pc # "extract") => (pc = "callGemini")
    /\ (pc' = "start" /\ pc # "start") => (pc = "done")

\* C17: within an invocation the steps only go forward in the order Start,
\* BuildPrompt, Dispatch, Extract, Done; extraction starts only from a completion
\* call that returned a non-empty text; the fallback synthesizer runs at most once
\* and only after a failure or the not-configured check; no invocation returns
\* both an extracted and a fallback verdict.
C17_StepOrder == []ExtractOrFallback /\ [][StepsForward]_vars

C17_Witness ==
    /\ Done /\ source = "extract"
    /\ completionCalls = 1 /\ mockCalls = 0
    /\ responses[1].body.aiResponse = aiResponse

\* the failures of the media fetch and of the completion call, as recorded in fault
MediaFetchFailed == fault \in {"fetch(content)", "imageResponse.ok", "arrayBuffer", "fromCharCode"}

CompletionFailed ==
    fault \in {"fetch(apiUrl)", "geminiResponse.text", "geminiResponse.json",
               "geminiData.candidates", "aiResponse.substring", "!geminiResponse.ok",
               "!geminiData.candidates", "!text"}

\* at most one call of each kind, and a failed call is the last thing before the
\* fallback verdict
OneAttempt ==
    /\ fetchCalls \in 0..1
    /\ completionCalls \in 0..1
    /\ MediaFetchFailed => (fetchCalls = 1 /\ completionCalls = 0 /\ Done /\ source = "fallback")
    /\ CompletionFailed => (completionCalls = 1 /\ Done /\ source = "fallback")

\* no outbound call in a step taken after a failure, within the same invocation
NoCallAfterFailure ==
    (fault # "none" /\ pc' # "start") =>
        (fetchCalls' = fetchCalls /\ completionCalls' = completionCalls)

\* C18: an invocation makes at most one media fetch and at most one completion
\* call; once either has failed the fallback verdict is returned with no further
\* outbound call.
C18_NoRetries == []OneAttempt /\ [][NoCallAfterFailure]_vars

C18_Witness ==
    /\ Done /\ fault = "imageResponse.ok"
    /\ fetchCalls = 1 /\ completionCalls = 0
    /\ source = "fallback"

\* "http://" or "https://" opens the content
IsHttpUrl(c) ==
    \/ startsWith(c, <<104, 116, 116, 112, 58, 47, 47>>)
    \/ startsWith(c, <<104, 116, 116, 112, 115, 58, 47, 47>>)

\* the request is for an image given by its URL, and the credential is configured
ImageUrlRequest ==
    /\ received = "body" /\ ~KeyUnusable
    /\ contentType = <<105, 109, 97, 103, 101>>
    /\ IsHttpUrl(content)

\* the value of a base64 digit: A-Z, a-z, 0-9, + and /
DigitValue(c) ==
    IF c \in 65..90 THEN c - 65
    ELSE IF c \in 97..122 THEN c - 71
    ELSE IF c \in 48..57 THEN c + 4
    ELSE IF c = 43 THEN 62
    ELSE 63

\* the bytes a padded base64 text stands for
RECURSIVE Base64Decode(_)
Base64Decode(data) ==
    IF Len(data) < 4 THEN <<>>
    ELSE LET v1 == DigitValue(data[1])
             v2 == DigitValue(data[2])
             v3 == DigitValue(data[3])
             v4 == DigitValue(data[4])
             first == <<v1 * 4 + (v2 \div 16)>>
             second == IF data[3] = 61 THEN <<>> ELSE <<(v2 % 16) * 16 + (v3 \div 4)>>
             third == IF data[4] = 61 THEN <<>> ELSE <<(v3 % 4) * 64 + v4>>
         IN  first \o second \o third \o Base64Decode(SubSeq(data, 5, Len(data)))

\* C19: for an image given by an HTTP(S) URL the completion call is made only
\* after the media fetch, with a payload of the prompt and one inline media part
\* whose data is the base64 text of the fetched bytes; after a fetch that threw or
\* answered with a non-OK status no completion call is made.
C19_FetchThenInlineMedia ==
    ImageUrlRequest =>
        /\ (pc = "callGemini") => (fetchCalls = 1)
        /\ (completionCalls = 1) =>
              /\ fetchCalls = 1
              /\ imageBuffer # Undefined
              /\ geminiPayload.text = prompt
              /\ Len(geminiPayload.inline_data) = 1
              /\ Len(geminiPayload.inline_data[1].data) % 4 = 0
              /\ Base64Decode(geminiPayload.inline_data[1].data) = imageBuffer
        /\ (fault \in {"fetch(content)", "imageResponse.ok"}) => (completionCalls = 0)

\* the two bytes "Ma" fetched and sent as "TWE="
C19_Witness ==
    /\ ImageUrlRequest /\ Done /\ source = "extract"
    /\ fetchCalls = 1 /\ completionCalls = 1
    /\ imageBuffer = <<77, 97>>
    /\ geminiPayload.inline_data[1].data = <<84, 87, 69, 61>>

\* C20: for an image whose content is neither an HTTP(S) URL nor a data URL no
\* media fetch is made and no media failure occurs; the completion call is made
\* once, with a payload of text only: the prompt and the content as it came.
C20_PlainImageContentDegrades ==
    (/\ received = "body" /\ ~Falsy(content) /\ ~KeyUnusable
     /\ contentType = <<105, 109, 97, 103, 101>>
     /\ ~IsHttpUrl(content)
     /\ ~startsWith(content, <<100, 97, 116, 97, 58>>)) =>
        /\ fetchCalls = 0
        /\ ~MediaFetchFailed /\ fault # "base64Image"
        /\ Done => (completionCalls = 1)
        /\ (completionCalls = 1) =>
              geminiPayload =
                  [text |-> prompt \o <<32, 67, 111, 110, 116, 101, 110, 116, 32, 100, 101, 115, 99, 114, 105, 112, 116, 105, 111,
                                    110, 58, 32>>
                                \o content,
                   inline_data |-> <<>>]

(***************************************************************************)
(* Media outside the image branch, data URLs, independent invocations      *)
(***************************************************************************)

\* "data:" opens the content
IsDataUrl(c) == startsWith(c, <<100, 97, 116, 97, 58>>)

\* the content type of the request is "image"
OfImage == contentType = <<105, 109, 97, 103, 101>>

\* " Content: "
ContentJoin == <<32, 67, 111, 110, 116, 101, 110, 116, 58, 32>>

\* C21: a request whose content type is not "image" (text, video, any other) makes
\* no media fetch and has no inline media in its payload, whatever its content;
\* its completion call carries one text part, the prompt followed by the content;
\* inline media is in the payload only for an image given as a URL or a data URL.
C21_NoMediaOutsideImage ==
    /\ (received = "body" /\ ~OfImage) =>
          /\ fetchCalls = 0
          /\ imageBuffer = Undefined
          /\ geminiPayload.inline_data = <<>>
          /\ (completionCalls = 1) =>
                (geminiPayload.text = prompt \o ContentJoin \o content)
    /\ (geminiPayload.inline_data # <<>>) =>
          (OfImage /\ (IsHttpUrl(content) \/ IsDataUrl(content)))
    /\ (fetchCalls > 0) => OfImage

\* a text request whose content is a URL, answered by the provider
C21_Witness ==
    /\ Done /\ source = "extract"
    /\ contentType = <<116, 101, 120, 116>>
    /\ IsHttpUrl(content)
    /\ completionCalls = 1 /\ fetchCalls = 0

\* ";base64,"
Base64Mark == <<59, 98, 97, 115, 101, 54, 52, 44>>

\* where ";base64," stands in a text: the first place, or 0
MarkPlaces(c) ==
    {i \in 1..(Len(c) - Len(Base64Mark) + 1) : SubSeq(c, i, i + Len(Base64Mark) - 1) = Base64Mark}
MarkPlace(c) ==
    IF MarkPlaces(c) = {} THEN 0
    ELSE CHOOSE i \in MarkPlaces(c) : \A j \in MarkPlaces(c) : i <= j

\* the <mime> and the <payload> of data:<mime>;base64,<payload>
MimeOf(c) == SubSeq(c, 6, MarkPlace(c) - 1)
PayloadOf(c) == SubSeq(c, MarkPlace(c) + Len(Base64Mark), Len(c))

\* an image request whose content has the form data:<mime>;base64,<payload>, with
\* the credential configured
DataUrlRequest ==
    /\ received = "body" /\ ~KeyUnusable /\ OfImage
    /\ IsDataUrl(content) /\ MarkPlace(content) > 0

\* C22: for an image given as data:<mime>;base64,<payload> the completion call is
\* made with one inline media part whose mime_type is <mime> and whose data is
\* <payload>; with nothing after the comma no completion call is made and the
\* verdict returned is the fallback one.
C22_DataUrlSplit ==
    DataUrlRequest =>
        IF PayloadOf(content) = <<>>
        THEN /\ completionCalls = 0
             /\ Done => (source = "fallback" /\ fault = "base64Image")
        ELSE /\ fetchCalls = 0
             /\ Done => (completionCalls = 1)
             /\ (completionCalls = 1) =>
                   /\ geminiPayload.text = prompt
                   /\ geminiPayload.inline_data =
                         <<[mime_type |-> MimeOf(content), data |-> PayloadOf(content)]>>

\* The response to a request handled alone: a function of the credential, of the
\* request, and of what the media fetch and the provider answered to it.
ResponseAlone(key, request, media, answer) ==
    LET c == request.content
        t == request.contentType
        error == [status |-> 400,
                  body |-> [error |-> Str_ContentIsRequired, safe |-> FALSE,
                            reason |-> Str_MissingContent]]
        fallback == [status |-> 200, body |-> createMockAnalysis(c, t)]
        fetches == t = <<105, 109, 97, 103, 101>> /\ startsWith(c, <<104, 116, 116, 112>>)
    IN  IF c = <<>> THEN error
        ELSE IF \A k \in 1..Len(key) : key[k] \in WhiteSpace THEN fallback
        ELSE IF fetches /\ ~media[1].ok THEN fallback
        ELSE IF t = <<105, 109, 97, 103, 101>> /\ IsDataUrl(c) /\ PayloadOf(c) = <<>> THEN fallback
        ELSE IF ~answer[1].ok THEN fallback
        ELSE [status |-> 200, body |-> analysisResult(answer[1].text, t)]

\* C23: whatever the interleaving of the invocations in flight, the response of
\* each is the one the same request gets when handled alone: it is a function of
\* the credential, of its own content and content type and of the answers to its
\* own media fetch and completion call; and an invocation keeps its request.
C23_InvocationsIndependent ==
    \A i \in Invocations :
        LET inv == invocations[i]
        IN  /\ (inv.pc = "done") =>
                  (inv.response =
                      <<ResponseAlone(GEMINI_API_KEY, [content |-> inv.content,
                                                       contentType |-> inv.contentType],
                                      inv.media, inv.answer)>>)
            /\ (inv.pc # "done") => (inv.response = <<>>)

\* an image request answered as unsafe while a text request is in flight
C23_Witness ==
    /\ invocations[1].pc = "done"
    /\ invocations[1].contentType = <<105, 109, 97, 103, 101>>
    /\ invocations[1].answer # <<>> /\ invocations[1].answer[1].ok
    /\ ~invocations[1].response[1].body.safe
    /\ invocations[2].pc = "fetch(apiUrl)"
    /\ invocations[2].contentType = <<116, 101, 120, 116>>

(***************************************************************************)
(* Category and confidence of the verdicts; the error responses            *)
(***************************************************************************)

\* "image", "video", "text"
KnownTypes == {<<105, 109, 97, 103, 101>>, <<118, 105, 100, 101, 111>>, <<116, 101, 120, 116>>}

\* the handler returned a verdict, extracted or synthesized
VerdictReturned == Done /\ source \in {"extract", "fallback"}

\* C24: in every verdict returned for an image, video or text request, extracted or
\* synthesized, the category is "safe" exactly when safe is true.
C24_SafeCategoryIffSafe ==
    (VerdictReturned /\ contentType \in KnownTypes) =>
        ((responses[1].body.category = <<115, 97, 102, 101>>) <=> responses[1].body.safe)

\* an unsafe verdict extracted for a video, and its category
C24_Witness ==
    /\ VerdictReturned /\ source = "extract"
    /\ contentType = <<118, 105, 100, 101, 111>>
    /\ ~responses[1].body.safe
    /\ responses[1].body.category # <<115, 97, 102, 101>>

\* the confidences of the safe and of the unsafe extracted verdicts, in hundredths
SafeConfidences == {95, 85, 80, 70, 60}
UnsafeConfidences == {90, 80, 75, 65, 55}

EmptyContentRequest == received = "body" /\ (content = Undefined \/ content = <<>>)

\* C27: a request whose content is missing or empty makes no media fetch, no
\* completion call and no call of the fallback synthesizer, with or without a
\* usable credential, and is answered with status 400 and safe = false; every
\* response with status 400 or 500 carries safe = false.
C27_EmptyContentRejected ==
    /\ EmptyContentRequest =>
          /\ fetchCalls = 0 /\ completionCalls = 0 /\ mockCalls = 0
          /\ prompt = Undefined
          /\ Done =>
                /\ Len(responses) = 1
                /\ responses[1].status = 400
                /\ responses[1].body.safe = FALSE
                /\ source = "error"
    /\ \A k \in 1..Len(responses) :
          (responses[k].status \in {400, 500}) =>
              ("safe" \in DOMAIN responses[k].body /\ responses[k].body.safe = FALSE)

\* an empty content rejected although no credential is configured
C27_Witness ==
    /\ EmptyContentRequest /\ Done
    /\ content = <<>>
    /\ KeyUnusable
    /\ responses[1].status = 400
    /\ responses[1].body.safe = FALSE

(***************************************************************************)
(* The Upload page                                                         *)
(***************************************************************************)

\* the latest call of analyzeContent ended in its catch clause
AnalysisFailed == upload.latest.outcome \in {"error", "throws"}

\* C28: the page gives the status 'safe', to the form and to the report it saves,
\* only for an analysis whose safe is true; after an invocation that answered
\* with an error or threw, the status is 'flagged', the analysis kept has safe
\* false, category "error" and confidence 0.5, and the content that failed is not
\* the one kept as last analyzed.
C28_UploadFailsClosed ==
    /\ (upload.result = "safe") =>
          (upload.analysisDetails # JsNull /\ upload.analysisDetails.safe = TRUE)
    /\ \A k \in 1..Len(upload.pending) :
          (upload.pending[k].finalResult = "safe") => (upload.pending[k].safe = TRUE)
    /\ AnalysisFailed =>
          /\ upload.result = "flagged"
          /\ upload.analysisDetails # JsNull
          /\ upload.analysisDetails.safe = FALSE
          /\ upload.analysisDetails.category = <<101, 114, 114, 111, 114>>
          /\ upload.analysisDetails.confidence = 50
          /\ upload.lastAnalyzedContent # upload.latest.content

\* the invocation threw, and the report of the submission was saved as flagged
C28_Witness ==
    /\ upload.latest.outcome = "throws"
    /\ upload.result = "flagged"
    /\ upload.lastCall.table = "content_reports"
    /\ upload.lastCall.ok /\ upload.lastCall.finalResult = "flagged"

\* analyzeContent returned analysisDetails without invoking the function
ShortCircuit == upload.latest.outcome = "cached"

\* C29: when analyzeContent takes its short-circuit, what it returns is not null
\* and is the verdict the function returned before for the same content and the
\* same content type.
C29_ShortCircuitReturnsVerdict ==
    ShortCircuit =>
        /\ upload.latest.returned # JsNull
        /\ upload.obtained # JsNull
        /\ upload.obtained.content = upload.latest.content
        /\ upload.obtained.contentType = upload.latest.contentType
        /\ upload.latest.returned = upload.obtained.data

\* C30: the upsert into flagged_accounts is made, and the addFlaggedAccount
\* callback called, only for a submission whose status is 'flagged' and whose
\* report was saved before; a submission with status 'safe' never gets to
\* flagged_accounts; the callback is called only after an upsert that succeeded.
C30_FlaggedAccountsAfterReport ==
    /\ \A k \in 1..Len(upload.pending) :
          LET f == upload.pending[k]
          IN  /\ (f.stage = "flagged_accounts") => (f.finalResult = "flagged" /\ f.reportSaved)
              /\ (f.finalResult = "safe") => (f.stage = "content_reports" /\ ~f.reportSaved)
    /\ (upload.lastCall.table = "flagged_accounts") =>
          /\ upload.lastCall.finalResult = "flagged"
          /\ upload.lastCall.reportSaved
          /\ upload.lastCall.addFlaggedAccount => upload.lastCall.ok

\* a flagged submission whose report was saved, upserted and passed to the callback
C30_Witness ==
    /\ upload.lastCall.table = "flagged_accounts"
    /\ upload.lastCall.ok /\ upload.lastCall.addFlaggedAccount
    /\ upload.lastCall.finalResult = "flagged" /\ upload.lastCall.reportSaved

=============================================================================
